---- MODULE Spec2Model ----
(***************************************************************************)
(* Model of the doffy-go-bootstrap core: the module dependency graph       *)
(* (ModuleGraph), the plugin manager (PluginManager) and the hierarchical  *)
(* dependency-injection containers (diContainer, ModuleContainer,          *)
(* RequestContainer) with the encapsulation policy.                        *)
(*                                                                         *)
(* The specifications share the variables:                                 *)
(*   SpecGraph     a ModuleGraph driven by AddModule and TopologicalSort   *)
(*   SpecPM        a PluginManager driven by RegisterPlugin and            *)
(*                 InitializePlugins, the async pass taken as one step     *)
(*   SpecRun       a PluginManager through one run: RegisterPlugin,        *)
(*                 InitializePlugins with the goroutines of its async      *)
(*                 pass, ShutdownPlugins                                   *)
(*   SpecDI        a container hierarchy driven by registration,           *)
(*                 decoration and the resolution entry points              *)
(*   SpecLifetime  root, module and request container with providers of    *)
(*                 every lifetime, resolved repeatedly                     *)
(*   SpecRequest   two request containers of one module container with     *)
(*                 request decorations, reply helpers and Clear            *)
(*   SpecValidate  Module.Validate called on constructed modules           *)
(*   SpecScope     the scopes CreateScope makes of a container             *)
(*   SpecAsync     async providers resolved with ResolveWithContext        *)
(*   SpecApp       one run of a DoffApp: RegisterPlugin, a route, Listen   *)
(*                 with its goroutine, Shutdown                            *)
(*   SpecSingleton goroutines resolving one Singleton concurrently         *)
(*   SpecLocks     goroutines calling container operations, lock by lock   *)
(*   SpecRunFair   SpecRun under the fairness of the Go scheduler          *)
(***************************************************************************)
EXTENDS Integers, Sequences, FiniteSets, TLC

VARIABLES
    modules,        \* ModuleGraph.modules: module name -> *Module
    edges,          \* ModuleGraph.edges: module name -> imported names, in order
    sortOut,        \* what the last TopologicalSort call returned
    plugins,        \* PluginManager.plugins: plugin name -> Plugin
    modulePrefixes, \* PluginManager.modulePrefixes: module name -> prefix
    hooks,          \* LifecycleManager.hooks
    appHooks,       \* LifecycleManager.appHooks
    lastReg,        \* the error the last RegisterPlugin call returned
    init,           \* the InitializePlugins call: its position and what it did
    pass,           \* the goroutines and the channels of initializeAsyncProviders
    shut,           \* what the ShutdownPlugins call did
    containers,     \* the containers in creation order; a reference is an index
    mode,           \* currentEncapsulationMode
    built,          \* how many instances the providers have constructed
    lastOp,         \* the last container call and what it returned
    app,            \* the DoffApp: the positions of its goroutines, its httpServer
    executionOrder, \* what the application hooks have appended, in order
    goroutines      \* the goroutines inside a container call

graphVars == <<modules, edges, sortOut>>

pmVars == <<plugins, modulePrefixes, hooks, appHooks, lastReg, init, pass, shut>>

diVars == <<containers, mode, built, lastOp>>

appVars == <<app, executionOrder, goroutines>>

vars == <<modules, edges, sortOut, plugins, modulePrefixes, hooks, appHooks, lastReg, init,
          pass, shut, containers, mode, built, lastOp, app, executionOrder, goroutines>>

(***************************************************************************)
(* Bounds                                                                  *)
(***************************************************************************)
MaxImports == 2

MaxPluginImports == 1

(* The module names a run may use. *)
ModuleNames == {"leaf", "middle", "root"}

NoError == "nil"

(***************************************************************************)
(* Sequences helpers                                                       *)
(***************************************************************************)
SeqsUpTo(S, n) == UNION {[1..k -> S] : k \in 0..n}

Range(s) == {s[i] : i \in 1..Len(s)}

HasDuplicate(s) == \E i, j \in 1..Len(s) : i < j /\ s[i] = s[j]

Perms(S) == {p \in [1..Cardinality(S) -> S] : \A i, j \in 1..Cardinality(S) : i # j => p[i] # p[j]}

Reverse(s) == [i \in 1..Len(s) |-> s[Len(s) + 1 - i]]

IndexOf(s, x) == CHOOSE i \in 1..Len(s) : s[i] = x

(***************************************************************************)
(* Module and its validation (module.go)                                   *)
(***************************************************************************)
NilProvider == [Name |-> "<nil>", IsAsync |-> FALSE]

AsyncProv(n) == [Name |-> n, IsAsync |-> TRUE]

(* NewModule: a module with no imports, providers, exports or prefix. *)
NewModule(name, version) ==
    [Name |-> name, Version |-> version, Imports |-> <<>>, Providers |-> <<>>,
     Exports |-> <<>>, Prefix |-> <<>>, Global |-> FALSE]

(* DefaultModule: the wrapper of a legacy plugin; it is Global. *)
DefaultModule(name, version) ==
    [NewModule(name, version) EXCEPT !.Global = TRUE]

(* A prefix is a sequence of characters. *)
HasDotDot(p) == \E i \in 1..(Len(p) - 1) : p[i] = "." /\ p[i + 1] = "."

ValidatePrefix(m) ==
    IF m.Prefix = <<>> THEN NoError
    ELSE IF m.Prefix[1] # "/" THEN "prefix must start with '/'"
    ELSE IF HasDotDot(m.Prefix) THEN "prefix contains invalid path traversal"
    ELSE NoError

(* A provider loop that does not look for a repeated name. *)
ProviderDefect_NoDuplicate(m, i) ==
    IF m.Providers[i] = NilProvider THEN "provider cannot be nil"
    ELSE IF m.Providers[i].Name = "" THEN "provider name cannot be empty"
    ELSE NoError

(* The defect the provider loop of Validate finds at position i, if any. *)
ProviderDefect(m, i) ==
    IF m.Providers[i] = NilProvider THEN "provider cannot be nil"
    ELSE IF m.Providers[i].Name = "" THEN "provider name cannot be empty"
    ELSE IF \E j \in 1..(i - 1) : m.Providers[j].Name = m.Providers[i].Name
         THEN "duplicate provider name"
    ELSE NoError

(* Validate returns the first violation in the order the code tests them. *)
Validate(m) ==
    IF m.Name = "" THEN "module name cannot be empty"
    ELSE IF m.Version = "" THEN "module version cannot be empty"
    ELSE IF HasDuplicate(m.Exports) THEN "duplicate export"
    ELSE IF \E i \in 1..Len(m.Providers) : ProviderDefect(m, i) # NoError
         THEN LET first == CHOOSE i \in 1..Len(m.Providers) :
                              /\ ProviderDefect(m, i) # NoError
                              /\ \A j \in 1..(i - 1) : ProviderDefect(m, j) = NoError
              IN  ProviderDefect(m, first)
    ELSE IF \E i \in 1..Len(m.Exports) :
               m.Exports[i] \notin {m.Providers[j].Name : j \in 1..Len(m.Providers)}
         THEN "exported provider not found"
    ELSE ValidatePrefix(m)

ValidateExports(m) == Validate(m)

IsExported(m, providerName) == \E i \in 1..Len(m.Exports) : m.Exports[i] = providerName

(***************************************************************************)
(* ModuleGraph (module_graph.go)                                           *)
(***************************************************************************)
NilModule == [Name |-> "<nil>"]

EmptyMap == [n \in {} |-> n]

NewModuleGraph == [modules |-> EmptyMap, edges |-> EmptyMap]

Graph == [modules |-> modules, edges |-> edges]

(* AddModule: the graph after the call and the error it returns. *)
AddModule(g, module) ==
    IF module = NilModule THEN [g |-> g, err |-> "module cannot be nil"]
    ELSE IF Validate(module) # NoError THEN [g |-> g, err |-> "module validation failed"]
    ELSE IF module.Name \in DOMAIN g.modules
         THEN [g |-> g, err |-> "module already registered"]
    ELSE [g |-> [modules |-> [n \in DOMAIN g.modules \cup {module.Name} |->
                                 IF n = module.Name THEN module ELSE g.modules[n]],
                 edges |-> [n \in DOMAIN g.edges \cup {module.Name} |->
                                 IF n = module.Name THEN module.Imports ELSE g.edges[n]]],
          err |-> NoError]

(* ValidateImports: every import of the module is a key of g.modules. *)
ValidateImports(g, module) ==
    IF \E i \in 1..Len(module.Imports) : module.Imports[i] \notin DOMAIN g.modules
    THEN "imports non-existent module"
    ELSE NoError

(* The edges of a name that has none: a Go map yields the empty slice. *)
EdgesOf(g, name) == IF name \in DOMAIN g.edges THEN g.edges[name] ELSE <<>>

(* The closure visit of TopologicalSort.  st carries visited, temp (sets of  *)
(* names mapped to true), postOrder and the error being returned.            *)
RECURSIVE visit(_, _, _)
RECURSIVE visitDeps(_, _, _, _)

(* visit without the test of temp: a back edge is taken for a finished module. *)
visit_NoBackEdge(g, name, st) ==
    IF name \in st.temp \/ name \in st.visited THEN st
    ELSE LET entered == [st EXCEPT !.temp = @ \cup {name}]
             after == visitDeps(g, name, 1, entered)
         IN  IF after.err # NoError THEN after
             ELSE [after EXCEPT !.temp = @ \ {name},
                                !.visited = @ \cup {name},
                                !.postOrder = Append(@, name)]

visit(g, name, st) ==
    IF name \in st.temp THEN [st EXCEPT !.err = "circular dependency detected"]
    ELSE IF name \in st.visited THEN st
    ELSE LET entered == [st EXCEPT !.temp = @ \cup {name}]
             after == visitDeps(g, name, 1, entered)
         IN  IF after.err # NoError THEN after
             ELSE [after EXCEPT !.temp = @ \ {name},
                                !.visited = @ \cup {name},
                                !.postOrder = Append(@, name)]

visitDeps(g, name, i, st) ==
    IF i > Len(EdgesOf(g, name)) THEN st
    ELSE LET dep == EdgesOf(g, name)[i]
         IN  IF dep \notin DOMAIN g.modules
             THEN [st EXCEPT !.err = "depends on non-existent module"]
             ELSE LET after == visit(g, dep, st)
                  IN  IF after.err # NoError THEN after
                      ELSE visitDeps(g, name, i + 1, after)

(* The loop over moduleOrder. *)
RECURSIVE visitAll(_, _, _, _)
visitAll(g, moduleOrder, i, st) ==
    IF i > Len(moduleOrder) THEN st
    ELSE IF moduleOrder[i] \in st.visited THEN visitAll(g, moduleOrder, i + 1, st)
    ELSE LET after == visit(g, moduleOrder[i], st)
         IN  IF after.err # NoError THEN after
             ELSE visitAll(g, moduleOrder, i + 1, after)

(* moduleOrder: the modules without imports, then the modules with imports;  *)
(* each group in the order the iteration over the map g.modules yields.      *)
ModuleOrders(g) ==
    LET none == {n \in DOMAIN g.modules : Len(EdgesOf(g, n)) = 0}
        some == {n \in DOMAIN g.modules : Len(EdgesOf(g, n)) > 0}
    IN  {p \o q : p \in Perms(none), q \in Perms(some)}

(* TopologicalSort with the map iteration yielding moduleOrder: the result   *)
(* is postOrder reversed, or no order and the error.                         *)
TopologicalSort(g, moduleOrder) ==
    LET st == visitAll(g, moduleOrder, 1,
                       [visited |-> {}, temp |-> {}, postOrder |-> <<>>, err |-> NoError])
    IN  IF st.err # NoError THEN [order |-> <<>>, err |-> st.err]
        ELSE [order |-> Reverse(st.postOrder), err |-> NoError]

(***************************************************************************)
(* SpecGraph: a ModuleGraph used directly                                  *)
(***************************************************************************)
NoSort == [called |-> FALSE, order |-> <<>>, err |-> NoError]

(* The modules handed to AddModule. *)
GraphModuleInputs ==
    {[NewModule(n, "1.0.0") EXCEPT !.Imports = imp] :
        n \in ModuleNames, imp \in SeqsUpTo(ModuleNames, MaxImports)}
    \cup {NilModule, NewModule("", "1.0.0"), NewModule("leaf", ""),
          [NewModule("leaf", "1.0.0") EXCEPT !.Exports = <<"svc">>]}

(* NewPluginManager, before any plugin is registered. *)
NoReg == [called |-> FALSE, err |-> NoError]

NoInit == [pc |-> "idle", order |-> <<>>, log |-> <<>>, err |-> NoError]

(* What the factory of an async provider does when AsyncProvider.Resolve     *)
(* calls it with the context carrying the deadline:                          *)
(*   value     it returns an instance before the deadline                    *)
(*   err       it returns an error of its own before the deadline            *)
(*   deadline  it runs until the deadline, sees the context done and returns *)
(*             the context's error (deadline exceeded)                       *)
(*   late      it does not look at the context, runs past the deadline and   *)
(*             then returns an instance                                      *)
(*   never     it does not look at the context and never returns             *)
Factories == {"value", "err", "deadline", "late", "never"}

(* No goroutine of any kind: a count for each kind of factory. *)
NoWorkers == [f \in Factories |-> 0]

(* initializeAsyncProviders has not been called. *)
NoPass ==
    [pc |-> "idle", cap |-> 0, waiting |-> NoWorkers, resolving |-> NoWorkers,
     sending |-> NoWorkers, finished |-> NoWorkers, errChan |-> <<>>, closed |-> FALSE,
     errors |-> NoWorkers]

(* ShutdownPlugins has not been called. *)
NoShutdown == [called |-> FALSE, log |-> <<>>, err |-> NoError]

NewPluginManager ==
    /\ plugins = EmptyMap
    /\ modulePrefixes = EmptyMap
    /\ hooks = <<>>
    /\ appHooks = <<>>
    /\ lastReg = NoReg
    /\ init = NoInit
    /\ pass = NoPass
    /\ shut = NoShutdown

NoOp == [op |-> "none"]

(* No DoffApp has been created and no goroutine resolves anything. *)
NoApp ==
    /\ app = [main |-> "none", listen |-> "none", listener |-> "none",
              shutdown |-> "none", httpServer |-> "nil"]
    /\ executionOrder = <<>>
    /\ goroutines = <<>>

(* No container exists; the encapsulation mode has its initial value. *)
NoContainers ==
    /\ containers = <<>>
    /\ mode = "Disabled"
    /\ built = 0
    /\ lastOp = NoOp

InitGraph ==
    /\ modules = NewModuleGraph.modules
    /\ edges = NewModuleGraph.edges
    /\ sortOut = NoSort
    /\ NewPluginManager
    /\ NoApp
    /\ NoContainers

GraphAddModule ==
    \E module \in GraphModuleInputs :
        LET r == AddModule(Graph, module)
        IN  /\ modules' = r.g.modules
            /\ edges' = r.g.edges
            /\ sortOut' = NoSort
            /\ UNCHANGED <<pmVars, diVars, appVars>>

GraphTopologicalSort ==
    \E moduleOrder \in ModuleOrders(Graph) :
        LET r == TopologicalSort(Graph, moduleOrder)
        IN  /\ sortOut' = [called |-> TRUE, order |-> r.order, err |-> r.err]
            /\ UNCHANGED <<modules, edges>>
            /\ UNCHANGED <<pmVars, diVars, appVars>>

NextGraph == GraphAddModule \/ GraphTopologicalSort

SpecGraph == InitGraph /\ [][NextGraph]_vars

(***************************************************************************)
(* PluginManager (plugin.go)                                               *)
(***************************************************************************)
NilPlugin == [Name |-> "<nil>"]

(* GetFullPrefix: "" stays "", a missing leading "/" is added, one trailing *)
(* "/" is trimmed.                                                          *)
GetFullPrefix(m) ==
    IF m.Prefix = <<>> THEN <<>>
    ELSE LET prefix == IF m.Prefix[1] # "/" THEN <<"/">> \o m.Prefix ELSE m.Prefix
         IN  IF prefix[Len(prefix)] = "/" THEN SubSeq(prefix, 1, Len(prefix) - 1)
             ELSE prefix

(* The module of a plugin: what Module() returns, or the DefaultModule     *)
(* wrapper when the plugin is no ModuleProvider or Module() returns nil.   *)
ModuleFor(plugin) ==
    IF plugin.Module = NilModule THEN DefaultModule(plugin.Name, plugin.Version)
    ELSE plugin.Module

MapPut(f, k, v) == [x \in DOMAIN f \cup {k} |-> IF x = k THEN v ELSE f[x]]

PluginNames == ModuleNames

(* The modules a plugin's Module() may return. *)
PluginModules ==
    {[NewModule(n, "1.0.0") EXCEPT !.Imports = imp, !.Providers = <<AsyncProv("db")>>,
                                   !.Prefix = <<"/", "a", "/">>] :
        n \in ModuleNames, imp \in SeqsUpTo(ModuleNames, MaxPluginImports)}

(* The plugins handed to RegisterPlugin. *)
PluginInputs ==
    {[Name |-> n, Version |-> "1.0.0", Module |-> m, RegisterOK |-> ok,
      Hooks |-> <<n>>, AppHooks |-> <<n>>] :
        n \in PluginNames, m \in PluginModules \cup {NilModule}, ok \in BOOLEAN}
    \cup {NilPlugin,
          [Name |-> "leaf", Version |-> "", Module |-> NilModule, RegisterOK |-> TRUE,
           Hooks |-> <<>>, AppHooks |-> <<>>],
          [Name |-> "leaf", Version |-> "1.0.0",
           Module |-> [NewModule("leaf", "1.0.0") EXCEPT !.Prefix = <<"a">>],
           RegisterOK |-> TRUE, Hooks |-> <<>>, AppHooks |-> <<>>]}

(* The events of the application hooks.  A hook is an ApplicationHookFunc  *)
(* with at most one function set: the hook named after an event appends    *)
(* that event to executionOrder when the method of the event is called,    *)
(* and every other method of every hook does nothing.                      *)
HookEvents == <<"OnRegister", "OnRoute", "OnReady", "OnListen", "PreClose", "OnClose">>

(* LifecycleManager.ExecuteOn<event>: the loop over appHooks calling the   *)
(* method of the event; the result is what the calls append.               *)
Execute(appHookList, event) == SelectSeq(appHookList, LAMBDA hook : hook = event)

(* RegisterPlugin, statement by statement: each error return leaves what   *)
(* the statements before it have written; the last statement is            *)
(* ExecuteOnRegister.                                                      *)
RegisterPlugin(plugin) ==
    /\ init.pc = "idle"
    /\ UNCHANGED <<sortOut, init, pass, shut, diVars, app, goroutines>>
    /\ IF plugin = NilPlugin
       THEN /\ lastReg' = [called |-> TRUE, err |-> "plugin cannot be nil"]
            /\ UNCHANGED <<modules, edges, plugins, modulePrefixes, hooks, appHooks>>
       ELSE IF plugin.Name \in DOMAIN plugins
       THEN /\ lastReg' = [called |-> TRUE, err |-> "plugin is already registered"]
            /\ UNCHANGED <<modules, edges, plugins, modulePrefixes, hooks, appHooks>>
       ELSE LET module == ModuleFor(plugin)
                added == AddModule(Graph, module)
            IN  IF ValidateExports(module) # NoError
                THEN /\ lastReg' = [called |-> TRUE, err |-> "export validation failed"]
                     /\ UNCHANGED <<modules, edges, plugins, modulePrefixes, hooks, appHooks>>
                ELSE IF added.err # NoError
                THEN /\ lastReg' = [called |-> TRUE, err |-> "module registration failed"]
                     /\ UNCHANGED <<modules, edges, plugins, modulePrefixes, hooks, appHooks>>
                ELSE /\ modules' = added.g.modules
                     /\ edges' = added.g.edges
                     /\ IF ValidateImports(added.g, module) # NoError
                        THEN /\ lastReg' = [called |-> TRUE, err |-> "import validation failed"]
                             /\ UNCHANGED <<plugins, modulePrefixes, hooks, appHooks>>
                        ELSE /\ modulePrefixes' =
                                    MapPut(modulePrefixes, module.Name, GetFullPrefix(module))
                             /\ IF ~plugin.RegisterOK
                                THEN /\ lastReg' = [called |-> TRUE, err |-> "plugin registration failed"]
                                     /\ UNCHANGED <<plugins, hooks, appHooks>>
                                ELSE /\ plugins' = MapPut(plugins, plugin.Name, plugin)
                                     /\ hooks' = hooks \o plugin.Hooks
                                     /\ appHooks' = appHooks \o plugin.AppHooks
                                     /\ lastReg' = [called |-> TRUE, err |-> NoError]
    /\ executionOrder' = IF lastReg'.err = NoError
                         THEN executionOrder \o Execute(appHooks', "OnRegister")
                         ELSE executionOrder

(* GetInitializationOrder without the test of the error of TopologicalSort. *)
GetInitializationOrder_IgnoreError(moduleOrder) ==
    LET sorted == TopologicalSort(Graph, moduleOrder)
    IN  [order |-> SelectSeq(sorted.order, LAMBDA n : n \in DOMAIN plugins),
         err |-> NoError]

(* GetInitializationOrder: the sorted modules whose name is a key of       *)
(* pm.plugins, each replaced by the plugin under that key.                 *)
GetInitializationOrder(moduleOrder) ==
    LET sorted == TopologicalSort(Graph, moduleOrder)
    IN  IF sorted.err # NoError THEN [order |-> <<>>, err |-> sorted.err]
        ELSE [order |-> SelectSeq(sorted.order, LAMBDA n : n \in DOMAIN plugins),
              err |-> NoError]

(* The async providers initializeAsyncProviders starts a worker for. *)
AsyncProvidersOf(order) ==
    UNION {IF plugins[n].Module = NilModule THEN {}
           ELSE {<<n, j>> : j \in {k \in 1..Len(plugins[n].Module.Providers) :
                                      plugins[n].Module.Providers[k].IsAsync}} :
           n \in Range(order)}

(* InitializePlugins, phase 1. *)
InitializePlugins_Order ==
    /\ init.pc = "idle"
    /\ \E moduleOrder \in ModuleOrders(Graph) :
          LET r == GetInitializationOrder(moduleOrder)
          IN  init' = IF r.err # NoError
                      THEN [init EXCEPT !.pc = "returned",
                                        !.err = "failed to resolve module dependencies"]
                      ELSE [init EXCEPT !.pc = "async", !.order = r.order]
    /\ UNCHANGED <<pass, shut>>
    /\ UNCHANGED <<modules, edges, sortOut, plugins, modulePrefixes, hooks, appHooks, lastReg, diVars, appVars>>

(* InitializePlugins, phase 2: every async provider is resolved; the pass  *)
(* fails when at least one resolution failed.                              *)
InitializePlugins_Async ==
    /\ init.pc = "async"
    /\ \E failed \in SUBSET AsyncProvidersOf(init.order) :
          init' = IF failed # {}
                  THEN [init EXCEPT !.pc = "returned",
                                    !.err = "async provider initialization failed"]
                  ELSE [init EXCEPT !.pc = "init"]
    /\ UNCHANGED <<pass, shut>>
    /\ UNCHANGED <<modules, edges, sortOut, plugins, modulePrefixes, hooks, appHooks, lastReg, diVars, appVars>>

(* InitializePlugins, phase 3: one iteration of the loop calling Init. *)
InitializePlugins_Init ==
    /\ init.pc = "init"
    /\ Len(init.log) < Len(init.order)
    /\ \E initOK \in BOOLEAN :
          LET plugin == init.order[Len(init.log) + 1]
          IN  init' = IF initOK
                      THEN [init EXCEPT !.log = Append(@, plugin)]
                      ELSE [init EXCEPT !.log = Append(@, plugin), !.pc = "returned",
                                        !.err = "plugin init failed"]
    /\ UNCHANGED <<pass, shut>>
    /\ UNCHANGED <<modules, edges, sortOut, plugins, modulePrefixes, hooks, appHooks, lastReg, diVars, appVars>>

(* InitializePlugins returns nil after the loop. *)
InitializePlugins_Return ==
    /\ init.pc = "init"
    /\ Len(init.log) = Len(init.order)
    /\ init' = [init EXCEPT !.pc = "returned"]
    /\ UNCHANGED <<pass, shut>>
    /\ UNCHANGED <<modules, edges, sortOut, plugins, modulePrefixes, hooks, appHooks, lastReg, diVars, appVars>>

InitPM == InitGraph

NextPM ==
    \/ \E plugin \in PluginInputs : RegisterPlugin(plugin)
    \/ InitializePlugins_Order
    \/ InitializePlugins_Async
    \/ InitializePlugins_Init
    \/ InitializePlugins_Return

SpecPM == InitPM /\ [][NextPM]_vars

(***************************************************************************)
(* initializeAsyncProviders, goroutine by goroutine (plugin.go)            *)
(*                                                                         *)
(* The workers run one closure and differ in the provider they resolve;    *)
(* pass counts the workers at each position, for each kind of factory.     *)
(* A worker is waiting before it has put its token into semaphore,         *)
(* resolving while ResolveWithContext runs, sending while it is blocked on *)
(* errChan, finished when its deferred calls have run.                     *)
(***************************************************************************)
SemaphoreCapacity == 10

AsyncProvider(name, factory) == [Name |-> name, IsAsync |-> TRUE, Factory |-> factory]

RECURSIVE SumOver(_, _)
SumOver(bag, S) ==
    IF S = {} THEN 0
    ELSE LET x == CHOOSE y \in S : TRUE
         IN  bag[x] + SumOver(bag, S \ {x})

Count(bag) == SumOver(bag, DOMAIN bag)

(* The workers the loop over the plugins starts: one for each async        *)
(* provider of the module of each plugin of the list.                      *)
Spawned(order) ==
    [f \in Factories |->
        Cardinality({pj \in AsyncProvidersOf(order) :
                        plugins[pj[1]].Module.Providers[pj[2]].Factory = f})]

(* The tokens in semaphore: a worker holds its token until it returns. *)
Held == Count(pass.resolving) + Count(pass.sending)

(* The counter of the WaitGroup. *)
WaitCounter == Count(pass.waiting) + Count(pass.resolving) + Count(pass.sending)

PassUnchanged ==
    UNCHANGED <<modules, edges, sortOut, plugins, modulePrefixes, hooks, appHooks, lastReg,
                shut, diVars, appVars>>

(* The loop of initializeAsyncProviders: errChan gets the capacity         *)
(* len(plugins), every worker and the goroutine that closes errChan are    *)
(* started.                                                                *)
InitializePlugins_Spawn ==
    /\ init.pc = "async"
    /\ pass.pc = "idle"
    /\ pass' = [NoPass EXCEPT !.pc = "collect", !.cap = Len(init.order),
                              !.waiting = Spawned(init.order)]
    /\ UNCHANGED init
    /\ PassUnchanged

(* A worker that puts its token into semaphore whatever the channel holds. *)
Worker_Acquire_NoSemaphore(f) ==
    /\ pass.waiting[f] > 0
    /\ pass' = [pass EXCEPT !.waiting[f] = @ - 1, !.resolving[f] = @ + 1]
    /\ UNCHANGED init
    /\ PassUnchanged

(* semaphore <- struct{}{}: blocks while the channel holds 10 tokens. *)
Worker_Acquire(f) ==
    /\ pass.waiting[f] > 0
    /\ Held < SemaphoreCapacity
    /\ pass' = [pass EXCEPT !.waiting[f] = @ - 1, !.resolving[f] = @ + 1]
    /\ UNCHANGED init
    /\ PassUnchanged

(* ResolveWithContext returns to the worker: without an error the worker   *)
(* returns (token taken back, wg.Done); with an error it goes on to send.  *)
(* A factory that never returns keeps its worker here.                     *)
Worker_Resolved(f) ==
    /\ pass.resolving[f] > 0
    /\ f # "never"
    /\ pass' = IF f \in {"value", "late"}
               THEN [pass EXCEPT !.resolving[f] = @ - 1, !.finished[f] = @ + 1]
               ELSE [pass EXCEPT !.resolving[f] = @ - 1, !.sending[f] = @ + 1]
    /\ UNCHANGED init
    /\ PassUnchanged

(* A send that gives the error up when errChan is full. *)
Worker_Send_DropWhenFull(f) ==
    /\ pass.sending[f] > 0
    /\ pass' = IF Len(pass.errChan) < pass.cap
               THEN [pass EXCEPT !.sending[f] = @ - 1, !.finished[f] = @ + 1,
                                 !.errChan = Append(@, f)]
               ELSE [pass EXCEPT !.sending[f] = @ - 1, !.finished[f] = @ + 1]
    /\ UNCHANGED init
    /\ PassUnchanged

(* errChan <- err: blocks while the buffer is full; then the worker        *)
(* returns (token taken back, wg.Done).  cap is at least 1 when a worker   *)
(* exists: a worker is started for a plugin of the list.                   *)
Worker_Send(f) ==
    /\ pass.sending[f] > 0
    /\ Len(pass.errChan) < pass.cap
    /\ pass' = [pass EXCEPT !.sending[f] = @ - 1, !.finished[f] = @ + 1,
                            !.errChan = Append(@, f)]
    /\ UNCHANGED init
    /\ PassUnchanged

(* A closing goroutine that does not wait for the workers. *)
Closer_NoWait ==
    /\ pass.pc = "collect"
    /\ ~pass.closed
    /\ pass' = [pass EXCEPT !.closed = TRUE]
    /\ UNCHANGED init
    /\ PassUnchanged

(* go func() { wg.Wait(); close(errChan) }() *)
Closer ==
    /\ pass.pc = "collect"
    /\ ~pass.closed
    /\ WaitCounter = 0
    /\ pass' = [pass EXCEPT !.closed = TRUE]
    /\ UNCHANGED init
    /\ PassUnchanged

(* A collector that reads errChan only after it has been closed. *)
Collector_Receive_AfterClose ==
    /\ pass.pc = "collect"
    /\ pass.closed
    /\ pass.errChan # <<>>
    /\ pass' = [pass EXCEPT !.errChan = Tail(@), !.errors[Head(pass.errChan)] = @ + 1]
    /\ UNCHANGED init
    /\ PassUnchanged

(* for err := range errChan: one error is received and appended. *)
Collector_Receive ==
    /\ pass.pc = "collect"
    /\ pass.errChan # <<>>
    /\ pass' = [pass EXCEPT !.errChan = Tail(@), !.errors[Head(pass.errChan)] = @ + 1]
    /\ UNCHANGED init
    /\ PassUnchanged

(* The range loop ends when errChan is closed and empty;                   *)
(* initializeAsyncProviders returns an error when it collected one, and    *)
(* InitializePlugins returns it wrapped or goes on to phase 3.             *)
Collector_Return ==
    /\ pass.pc = "collect"
    /\ pass.closed
    /\ pass.errChan = <<>>
    /\ pass' = [pass EXCEPT !.pc = "returned"]
    /\ init' = IF Count(pass.errors) > 0
               THEN [init EXCEPT !.pc = "returned",
                                 !.err = "async provider initialization failed"]
               ELSE [init EXCEPT !.pc = "init"]
    /\ PassUnchanged

(* ShutdownPlugins: the loop over the map pm.plugins returns at the first  *)
(* Shutdown that returns an error.  failing: the plugins whose Shutdown    *)
(* returns an error; order: what the iteration over the map yields.        *)
ShutdownPlugins ==
    /\ init.pc = "returned"
    /\ ~shut.called
    /\ \E order \in Perms(DOMAIN plugins), failing \in SUBSET DOMAIN plugins :
          LET stops == {i \in 1..Len(order) : order[i] \in failing}
              last == IF stops = {} THEN Len(order)
                      ELSE CHOOSE i \in stops : \A j \in stops : i <= j
          IN  shut' = [called |-> TRUE, log |-> SubSeq(order, 1, last),
                       err |-> IF stops = {} THEN NoError ELSE "shutdown failed"]
    /\ UNCHANGED <<modules, edges, sortOut, plugins, modulePrefixes, hooks, appHooks, lastReg,
                   init, pass, diVars, appVars>>

(***************************************************************************)
(* SpecRun: one run of a PluginManager: plugins are registered, then       *)
(* InitializePlugins runs with its goroutines, then ShutdownPlugins        *)
(***************************************************************************)
ProviderNames == <<"p1", "p2", "p3", "p4">>

(* n async providers whose factories all do the same. *)
AsyncProviders(n, factory) == [i \in 1..n |-> AsyncProvider(ProviderNames[i], factory)]

(* The providers of the modules of the plugins of a run. *)
RunProviders(name) ==
    {AsyncProviders(4, "value")} \cup
    (IF name = "leaf"
        THEN {<<AsyncProvider("p1", "err"), AsyncProvider("p2", "err"),
                AsyncProvider("p3", "value")>>}
     ELSE IF name = "middle"
        THEN {<<AsyncProvider("p1", "deadline"), AsyncProvider("p2", "late")>>,
              <<AsyncProvider("p1", "late")>>}
     ELSE {<<AsyncProvider("p1", "never")>>, <<>>})

(* leaf imports nothing or root, middle imports leaf, root imports middle. *)
RunImports(name) ==
    IF name = "leaf" THEN {<<>>, <<"root">>}
    ELSE IF name = "middle" THEN {<<"leaf">>}
    ELSE {<<"middle">>}

RunPlugins ==
    {[Name |-> n, Version |-> "1.0.0",
      Module |-> [NewModule(n, "1.0.0") EXCEPT !.Imports = imp, !.Providers = prov],
      RegisterOK |-> TRUE, Hooks |-> <<>>, AppHooks |-> <<>>] :
        n \in {"leaf"}, imp \in RunImports("leaf"), prov \in RunProviders("leaf")}
    \cup
    {[Name |-> n, Version |-> "1.0.0",
      Module |-> [NewModule(n, "1.0.0") EXCEPT !.Imports = imp, !.Providers = prov],
      RegisterOK |-> TRUE, Hooks |-> <<>>, AppHooks |-> <<>>] :
        n \in {"middle"}, imp \in RunImports("middle"), prov \in RunProviders("middle")}
    \cup
    {[Name |-> n, Version |-> "1.0.0",
      Module |-> [NewModule(n, "1.0.0") EXCEPT !.Imports = imp, !.Providers = prov],
      RegisterOK |-> TRUE, Hooks |-> <<>>, AppHooks |-> <<>>] :
        n \in {"root"}, imp \in RunImports("root"), prov \in RunProviders("root")}

InitRun == InitGraph

NextRun ==
    \/ \E plugin \in RunPlugins : RegisterPlugin(plugin)
    \/ InitializePlugins_Order
    \/ InitializePlugins_Spawn
    \/ \E f \in Factories : Worker_Acquire(f)
    \/ \E f \in Factories : Worker_Resolved(f)
    \/ \E f \in Factories : Worker_Send(f)
    \/ Closer
    \/ Collector_Receive
    \/ Collector_Return
    \/ InitializePlugins_Init
    \/ InitializePlugins_Return
    \/ ShutdownPlugins

SpecRun == InitRun /\ [][NextRun]_vars

(* The Go scheduler runs every goroutine that can take a step: a worker    *)
(* that can send or receive on a channel does so, a factory that returns   *)
(* lets its worker go on, the closing goroutine and the range loop of      *)
(* initializeAsyncProviders go on when they can, and so does the loop of   *)
(* InitializePlugins.  The calls of RegisterPlugin, InitializePlugins and  *)
(* ShutdownPlugins are the caller's and under no fairness.                 *)
FairRun ==
    /\ WF_vars(InitializePlugins_Spawn)
    /\ \A f \in Factories : WF_vars(Worker_Acquire(f))
    /\ \A f \in Factories : WF_vars(Worker_Resolved(f))
    /\ \A f \in Factories : WF_vars(Worker_Send(f))
    /\ WF_vars(Closer)
    /\ WF_vars(Collector_Receive)
    /\ WF_vars(Collector_Return)
    /\ WF_vars(InitializePlugins_Init)
    /\ WF_vars(InitializePlugins_Return)

SpecRunFair == SpecRun /\ FairRun

(***************************************************************************)
(* Containers (request_container.go, part_009)                             *)
(*                                                                         *)
(* A container is a record in the sequence containers.  A reference to a   *)
(* container is [id, base]: base is TRUE when the pointer is to the        *)
(* *diContainer embedded in a ModuleContainer or RequestContainer, whose   *)
(* methods are those of diContainer, not the overriding ones.              *)
(***************************************************************************)
ServiceNames == {"x"}

Lifetimes == {"Singleton", "Transient", "Scoped"}

EncapsulationModes == {"Disabled", "Warn", "Enforce"}

(* What a factory call does: it returns a new value, returns (nil, nil) or *)
(* returns an error.                                                       *)
Outcomes == {"value", "nil", "err"}

NilValue == [kind |-> "nil", owner |-> 0, id |-> 0]

(* The n-th instance constructed, by the provider registered in container c. *)
InstanceOf(c, n) == [kind |-> "instance", owner |-> c, id |-> n]

DecoratorValue(c) == [kind |-> "decorator", owner |-> c, id |-> 0]

NilRef == [id |-> 0, base |-> FALSE]

FullRef(c) == [id |-> c, base |-> FALSE]

BaseRef(c) == [id |-> c, base |-> TRUE]

NewDIContainer ==
    [kind |-> "di", parent |-> NilRef, module |-> NilModule, services |-> EmptyMap,
     decorators |-> EmptyMap, requestData |-> EmptyMap, replyHelpers |-> EmptyMap]

(* NewModuleContainer with a wrong parent: the container created last. *)
NewModuleContainer_ParentIsLatest(cs, module, parent) ==
    [NewDIContainer EXCEPT !.kind = "module", !.parent = FullRef(Len(cs)), !.module = module]

(* cs: the containers that exist when the constructor is called. *)
NewModuleContainer(cs, module, parent) ==
    [NewDIContainer EXCEPT !.kind = "module", !.parent = parent, !.module = module]

NewRequestContainer(moduleContainer) ==
    [NewDIContainer EXCEPT !.kind = "request", !.parent = moduleContainer]

CreateRequestScope(mc) == NewRequestContainer(FullRef(mc))

(* The receiver of CreateScope is a *diContainer: for a module or request  *)
(* container it is the embedded one.                                       *)
CreateScope(c) == [NewDIContainer EXCEPT !.parent = BaseRef(c)]

(* The type assertions of a reference to *diContainer and to *ModuleContainer. *)
IsDiContainer(cs, ref) == ref.base \/ cs[ref.id].kind = "di"

IsModuleContainer(cs, ref) == ~ref.base /\ cs[ref.id].kind = "module"

IsRequestContainer(cs, ref) == ~ref.base /\ cs[ref.id].kind = "request"

(* CheckEncapsulationViolation under the current mode. *)
CheckEncapsulationViolation(fromModule, toModule, serviceName) ==
    IF mode = "Disabled" THEN [allowed |-> TRUE, err |-> NoError, warned |-> FALSE]
    ELSE IF mode = "Warn" THEN [allowed |-> TRUE, err |-> NoError, warned |-> TRUE]
    ELSE [allowed |-> FALSE, err |-> "cannot access unexported provider", warned |-> FALSE]

(* GetDecorator: the decorator of mc, else of the nearest ancestor reached *)
(* through parents that are ModuleContainers.                              *)
RECURSIVE GetDecorator(_, _, _)
GetDecorator(cs, mc, name) ==
    IF name \in DOMAIN cs[mc].decorators
    THEN [value |-> cs[mc].decorators[name], exists |-> TRUE, at |-> mc]
    ELSE IF IsModuleContainer(cs, cs[mc].parent)
    THEN GetDecorator(cs, cs[mc].parent.id, name)
    ELSE [value |-> NilValue, exists |-> FALSE, at |-> 0]

(* The outcome of a resolution.  w is the world the call leaves: the       *)
(* containers, the instance counter, whether a warning was written, the    *)
(* context that reached the innermost callee.                              *)
(* served: the container whose binding produced val; via: the kind of      *)
(* binding; made: what the one provider call of this resolution did.       *)
Found(w, val, served, via, made) ==
    [val |-> val, err |-> NoError, served |-> served, via |-> via, made |-> made,
     from |-> "", to |-> "", at |-> 0, w |-> w]

Failed(w, err, served, made, from, to, at) ==
    [val |-> NilValue, err |-> err, served |-> served, via |-> "none", made |-> made,
     from |-> from, to |-> to, at |-> at, w |-> w]

(* provider.Resolve of a provider registered in container c.  For a        *)
(* factory provider the outcome is what the factory does; for an async     *)
(* provider it is also one of the factories "deadline" and "late":         *)
(* AsyncProvider.Resolve derives the context with the timeout and returns  *)
(* what the factory returns, whenever it returns.                          *)
ProviderResolve(w, c, outcome) ==
    IF outcome \in {"value", "late"}
    THEN [val |-> InstanceOf(c, w.built + 1), err |-> NoError,
          w |-> [w EXCEPT !.built = @ + 1]]
    ELSE IF outcome = "nil" THEN [val |-> NilValue, err |-> NoError, w |-> w]
    ELSE IF outcome = "deadline"
    THEN [val |-> NilValue, err |-> "context deadline exceeded", w |-> w]
    ELSE [val |-> NilValue, err |-> "factory failed", w |-> w]

(* case Singleton of diContainer.ResolveWithContext and of                 *)
(* ModuleContainer.ResolveWithContext: the cached instance when it is not  *)
(* nil; else the provider is called and what it returned is stored.        *)
SingletonCase(w, c, name, outcome) ==
    LET service == w.cs[c].services[name]
        made == ProviderResolve(w, c, outcome)
    IN  IF service.Instance # NilValue
        THEN Found(w, service.Instance, c, "provider", "none")
        ELSE IF made.err # NoError
        THEN Failed(made.w, "failed to create singleton service", c, outcome, "", "", c)
        ELSE Found([made.w EXCEPT !.cs[c].services[name].Instance = made.val],
                   made.val, c, "provider", outcome)

(* case Transient and case Scoped: the provider is called, nothing is kept. *)
TransientCase(w, c, outcome) ==
    LET made == ProviderResolve(w, c, outcome)
    IN  IF made.err # NoError THEN Failed(made.w, made.err, c, outcome, "", "", c)
        ELSE Found(made.w, made.val, c, "provider", outcome)

RECURSIVE DiResolveWithContext(_, _, _, _)
RECURSIVE McResolveWithContext(_, _, _, _)
RECURSIVE RcResolveWithContext(_, _, _, _)
RECURSIVE ResolveOn(_, _, _, _)
RECURSIVE ResolveWithContextOn(_, _, _, _)

(* diContainer.ResolveWithContext without the call of a parent that is no  *)
(* *diContainer.                                                           *)
DiResolveWithContext_OnlyDiParents(w, c, name, outcome) ==
    IF name \in DOMAIN w.cs[c].services
    THEN IF w.cs[c].services[name].Lifetime = "Singleton"
         THEN SingletonCase(w, c, name, outcome)
         ELSE TransientCase(w, c, outcome)
    ELSE LET parent == w.cs[c].parent
         IN  IF parent.id # 0 /\ IsDiContainer(w.cs, parent)
             THEN DiResolveWithContext(w, parent.id, name, outcome)
             ELSE Failed(w, "service is not registered", 0, "none", "", "", c)

(* diContainer.ResolveWithContext on the diContainer c, which is also what *)
(* runs for the embedded diContainer of a module or request container.     *)
DiResolveWithContext(w, c, name, outcome) ==
    IF name \in DOMAIN w.cs[c].services
    THEN IF w.cs[c].services[name].Lifetime = "Singleton"
         THEN SingletonCase(w, c, name, outcome)
         ELSE TransientCase(w, c, outcome)
    ELSE LET parent == w.cs[c].parent
         IN  IF parent.id # 0
             THEN IF IsDiContainer(w.cs, parent)
                  THEN DiResolveWithContext(w, parent.id, name, outcome)
                  ELSE ResolveOn(w, parent, name, outcome)
             ELSE Failed(w, "service is not registered", 0, "none", "", "", c)

(* ModuleContainer.ResolveWithContext. *)
McResolveWithContext(w, mc, name, outcome) ==
    LET dec == GetDecorator(w.cs, mc, name)
        parent == w.cs[mc].parent
        module == w.cs[mc].module
    IN  IF dec.exists THEN Found(w, dec.value, dec.at, "decorator", "none")
        ELSE IF name \in DOMAIN w.cs[mc].services
        THEN IF w.cs[mc].services[name].Lifetime = "Singleton"
             THEN SingletonCase(w, mc, name, outcome)
             ELSE TransientCase(w, mc, outcome)
        ELSE IF parent.id # 0
        THEN LET checked == /\ IsModuleContainer(w.cs, parent)
                            /\ ~module.Global
                            /\ ~w.cs[parent.id].module.Global
                            /\ ~IsExported(w.cs[parent.id].module, name)
                 check == CheckEncapsulationViolation(
                              module.Name, w.cs[parent.id].module.Name, name)
             IN  IF checked /\ ~check.allowed
                 THEN Failed(w, check.err, 0, "none",
                             module.Name, w.cs[parent.id].module.Name, mc)
                 ELSE ResolveWithContextOn(
                          [w EXCEPT !.warned = @ \/ (checked /\ check.warned)],
                          parent, name, outcome)
        ELSE Failed(w, "service is not registered in module", 0, "none", "", "", mc)

(* RequestContainer.ResolveWithContext looking at its providers before its  *)
(* request data and reply helpers.                                          *)
RcResolveWithContext_ProviderFirst(w, rc, name, outcome) ==
    IF name \in DOMAIN w.cs[rc].services
    THEN TransientCase(w, rc, outcome)
    ELSE IF name \in DOMAIN w.cs[rc].requestData
    THEN Found(w, w.cs[rc].requestData[name], rc, "requestData", "none")
    ELSE IF name \in DOMAIN w.cs[rc].replyHelpers
    THEN Found(w, w.cs[rc].replyHelpers[name], rc, "replyHelper", "none")
    ELSE IF w.cs[rc].parent.id # 0
    THEN ResolveWithContextOn(w, w.cs[rc].parent, name, outcome)
    ELSE Failed(w, "service is not registered", 0, "none", "", "", rc)

(* RequestContainer.ResolveWithContext with the encapsulation check made   *)
(* on the call from the request container into its module container.        *)
RcResolveWithContext_CheckedHop(w, rc, name, outcome) ==
    LET parent == w.cs[rc].parent
        checked == /\ parent.id # 0
                   /\ ~w.cs[parent.id].module.Global
                   /\ ~IsExported(w.cs[parent.id].module, name)
        check == CheckEncapsulationViolation("request", w.cs[parent.id].module.Name, name)
    IN  IF name \in DOMAIN w.cs[rc].requestData
        THEN Found(w, w.cs[rc].requestData[name], rc, "requestData", "none")
        ELSE IF name \in DOMAIN w.cs[rc].replyHelpers
        THEN Found(w, w.cs[rc].replyHelpers[name], rc, "replyHelper", "none")
        ELSE IF name \in DOMAIN w.cs[rc].services
        THEN TransientCase(w, rc, outcome)
        ELSE IF parent.id # 0
        THEN IF checked /\ ~check.allowed
             THEN Failed(w, check.err, 0, "none", "request",
                         w.cs[parent.id].module.Name, rc)
             ELSE ResolveWithContextOn([w EXCEPT !.warned = @ \/ (checked /\ check.warned)],
                                       parent, name, outcome)
        ELSE Failed(w, "service is not registered", 0, "none", "", "", rc)

(* RequestContainer.ResolveWithContext: a local provider is called on every *)
(* resolution, whatever its lifetime.                                       *)
RcResolveWithContext(w, rc, name, outcome) ==
    IF name \in DOMAIN w.cs[rc].requestData
    THEN Found(w, w.cs[rc].requestData[name], rc, "requestData", "none")
    ELSE IF name \in DOMAIN w.cs[rc].replyHelpers
    THEN Found(w, w.cs[rc].replyHelpers[name], rc, "replyHelper", "none")
    ELSE IF name \in DOMAIN w.cs[rc].services
    THEN TransientCase(w, rc, outcome)
    ELSE IF w.cs[rc].parent.id # 0
    THEN ResolveWithContextOn(w, w.cs[rc].parent, name, outcome)
    ELSE Failed(w, "service is not registered", 0, "none", "", "", rc)

(* ref.Resolve(name): only RequestContainer declares a Resolve of its own;  *)
(* for a ModuleContainer the method is the embedded diContainer's.  Both    *)
(* call ResolveWithContext(name, context.Background()).                     *)
ResolveOn(w, ref, name, outcome) ==
    LET background == [w EXCEPT !.ctx = "background"]
    IN  IF IsRequestContainer(w.cs, ref)
        THEN RcResolveWithContext(background, ref.id, name, outcome)
        ELSE DiResolveWithContext(background, ref.id, name, outcome)

(* ref.ResolveWithContext(name, ctx). *)
ResolveWithContextOn(w, ref, name, outcome) ==
    IF IsRequestContainer(w.cs, ref) THEN RcResolveWithContext(w, ref.id, name, outcome)
    ELSE IF IsModuleContainer(w.cs, ref) THEN McResolveWithContext(w, ref.id, name, outcome)
    ELSE DiResolveWithContext(w, ref.id, name, outcome)

(* The targets handed to ResolveAs: a pointer to the type of the instance  *)
(* or to another type.                                                     *)
Targets == {"pointer", "otherType"}

(* diContainer.ResolveAsWithContext, which no container kind overrides: it  *)
(* resolves on the embedded diContainer; reflect.ValueOf(nil).Type() panics. *)
ResolveAsWithContextOn(w, ref, name, outcome, target) ==
    LET r == DiResolveWithContext(w, ref.id, name, outcome)
    IN  IF r.err # NoError THEN r
        ELSE IF r.val = NilValue THEN [r EXCEPT !.err = "panic"]
        ELSE IF target = "otherType"
        THEN [r EXCEPT !.err = "service cannot be assigned to target type"]
        ELSE r

(* The world a call starts in; ctx is the context the call is given: the   *)
(* caller's, until a callee replaces it by context.Background().           *)
World == [cs |-> containers, built |-> built, warned |-> FALSE, ctx |-> "caller"]

(***************************************************************************)
(* SpecDI: a hierarchy of containers and the calls made on it              *)
(***************************************************************************)
MaxInst == 1

Containers == 1..Len(containers)

(* The containers providers are registered in: the module containers. *)
Registrants == {c \in Containers : containers[c].kind = "module"}

(* The lifetimes providers are registered with; Scoped takes the branch of  *)
(* Transient in every ResolveWithContext.                                   *)
RegisteredLifetimes == Lifetimes \ {"Scoped"}

(* root <- parent <- child, or root <- moduleA and root <- moduleB; then a *)
(* request scope and a scope of the last module container.                 *)
Hierarchy(chain, global2, global3, exports) ==
    LET m2 == [DefaultModule(IF chain THEN "parent" ELSE "moduleA", "1.0.0")
                  EXCEPT !.Global = global2, !.Exports = exports]
        m3 == [DefaultModule(IF chain THEN "child" ELSE "moduleB", "1.0.0")
                  EXCEPT !.Global = global3]
        c1 == <<NewDIContainer>>
        c2 == Append(c1, NewModuleContainer(c1, m2, FullRef(1)))
        c3 == Append(c2, NewModuleContainer(c2, m3, FullRef(IF chain THEN 2 ELSE 1)))
        c4 == Append(c3, CreateRequestScope(3))
    IN  Append(c4, CreateScope(3))

InitDI ==
    /\ modules = NewModuleGraph.modules
    /\ edges = NewModuleGraph.edges
    /\ sortOut = NoSort
    /\ NewPluginManager
    /\ NoApp
    /\ \/ \E global2, global3 \in BOOLEAN, exports \in SeqsUpTo(ServiceNames, 1) :
              containers = Hierarchy(TRUE, global2, global3, exports)
       \/ containers = Hierarchy(FALSE, TRUE, TRUE, <<>>)
    /\ mode = "Disabled"
    /\ built = 0
    /\ lastOp = NoOp

Returned(op, c, name, r) ==
    [op |-> op, c |-> c, name |-> name, val |-> r.val, err |-> r.err, served |-> r.served,
     via |-> r.via, made |-> r.made, from |-> r.from, to |-> r.to, at |-> r.at,
     warned |-> r.w.warned, ctx |-> r.w.ctx]

SetEncapsulationMode(m) ==
    /\ mode' = m
    /\ lastOp' = NoOp
    /\ UNCHANGED <<graphVars, pmVars, appVars, containers, built>>

(* A RegisterProvider that returns the error for a registered name and     *)
(* replaces the registration all the same.                                 *)
RegisterProvider_Overwrite(c, name, lifetime) ==
    /\ containers' = [containers EXCEPT ![c].services =
                          MapPut(@, name, [Lifetime |-> lifetime, Instance |-> NilValue])]
    /\ lastOp' = [op |-> "RegisterProvider", c |-> c, name |-> name,
                  err |-> IF name \in DOMAIN containers[c].services
                          THEN "service is already registered" ELSE NoError]
    /\ UNCHANGED <<graphVars, pmVars, appVars, mode, built>>

(* RegisterProvider, reached by Register and Register<Lifetime>. *)
RegisterProvider(c, name, lifetime) ==
    /\ IF name \in DOMAIN containers[c].services
       THEN /\ lastOp' = [op |-> "RegisterProvider", c |-> c, name |-> name,
                          err |-> "service is already registered"]
            /\ UNCHANGED containers
       ELSE /\ containers' = [containers EXCEPT ![c].services =
                                 MapPut(@, name, [Lifetime |-> lifetime, Instance |-> NilValue])]
            /\ lastOp' = [op |-> "RegisterProvider", c |-> c, name |-> name, err |-> NoError]
    /\ UNCHANGED <<graphVars, pmVars, appVars, mode, built>>

Decorate(mc, name) ==
    /\ containers[mc].kind = "module"
    /\ IF name \in DOMAIN containers[mc].decorators
       THEN /\ lastOp' = [op |-> "Decorate", c |-> mc, name |-> name,
                          err |-> "decorator already exists"]
            /\ UNCHANGED containers
       ELSE /\ containers' = [containers EXCEPT ![mc].decorators =
                                 MapPut(@, name, DecoratorValue(mc))]
            /\ lastOp' = [op |-> "Decorate", c |-> mc, name |-> name, err |-> NoError]
    /\ UNCHANGED <<graphVars, pmVars, appVars, mode, built>>

(* A call returns r, in a run where the providers construct at most max     *)
(* instances.  The outcome of the factory is an input of the call only when *)
(* the call reaches a factory.                                              *)
ReturnWithin(max, op, c, name, outcome, r) ==
    /\ r.w.built <= max
    /\ outcome = "value" \/ r.made # "none"
    /\ containers' = r.w.cs
    /\ built' = r.w.built
    /\ lastOp' = Returned(op, c, name, r)
    /\ UNCHANGED <<graphVars, pmVars, appVars, mode>>

Return(op, c, name, outcome, r) == ReturnWithin(MaxInst, op, c, name, outcome, r)

ResolveWithin(max, c, name, outcome) ==
    ReturnWithin(max, "Resolve", c, name, outcome,
                 ResolveOn(World, FullRef(c), name, outcome))

ResolveWithContextWithin(max, c, name, outcome) ==
    ReturnWithin(max, "ResolveWithContext", c, name, outcome,
                 ResolveWithContextOn(World, FullRef(c), name, outcome))

Resolve(c, name, outcome) == ResolveWithin(MaxInst, c, name, outcome)

ResolveWithContext(c, name, outcome) == ResolveWithContextWithin(MaxInst, c, name, outcome)

(* ResolveAs calls ResolveAsWithContext(name, context.Background(), target); *)
(* the target is looked at only when an instance was resolved.              *)
ResolveAs(c, name, outcome, target) ==
    LET r == ResolveAsWithContextOn([World EXCEPT !.ctx = "background"], FullRef(c),
                                    name, outcome, target)
    IN  /\ target = "pointer" \/ r.err = "service cannot be assigned to target type"
        /\ Return("ResolveAs", c, name, outcome, r)

ResolveAsWithContext(c, name, outcome, target) ==
    LET r == ResolveAsWithContextOn(World, FullRef(c), name, outcome, target)
    IN  /\ target = "pointer" \/ r.err = "service cannot be assigned to target type"
        /\ Return("ResolveAsWithContext", c, name, outcome, r)

NextDI ==
    \/ \E m \in EncapsulationModes : SetEncapsulationMode(m)
    \/ \E c \in Registrants, name \in ServiceNames, lifetime \in RegisteredLifetimes :
           RegisterProvider(c, name, lifetime)
    \/ \E mc \in Containers, name \in ServiceNames : Decorate(mc, name)
    \/ \E c \in Containers, name \in ServiceNames, outcome \in Outcomes :
           Resolve(c, name, outcome)
    \/ \E c \in Containers, name \in ServiceNames, outcome \in Outcomes :
           ResolveWithContext(c, name, outcome)
    \/ \E c \in Containers, name \in ServiceNames, outcome \in Outcomes, target \in Targets :
           ResolveAs(c, name, outcome, target)
    \/ \E c \in Containers, name \in ServiceNames, outcome \in Outcomes, target \in Targets :
           ResolveAsWithContext(c, name, outcome, target)

SpecDI == InitDI /\ [][NextDI]_vars

(***************************************************************************)
(* SpecLifetime: a root container, a module container on it and a request *)
(* container of the module container; providers of every lifetime are      *)
(* registered in each and resolved again and again                         *)
(***************************************************************************)
MaxBuilt == 2

(* The containers of TestModuleContainer_CreateRequestScope. *)
InitLifetime ==
    /\ modules = NewModuleGraph.modules
    /\ edges = NewModuleGraph.edges
    /\ sortOut = NoSort
    /\ NewPluginManager
    /\ NoApp
    /\ containers =
          LET c1 == <<NewDIContainer>>
              c2 == Append(c1, NewModuleContainer(c1, DefaultModule("test", "1.0.0"),
                                                  FullRef(1)))
          IN  Append(c2, CreateRequestScope(2))
    /\ mode = "Disabled"
    /\ built = 0
    /\ lastOp = NoOp

NextLifetime ==
    \/ \E c \in Containers, name \in ServiceNames, lifetime \in Lifetimes :
           RegisterProvider(c, name, lifetime)
    \/ \E c \in Containers, name \in ServiceNames, outcome \in Outcomes :
           ResolveWithin(MaxBuilt, c, name, outcome)
    \/ \E c \in Containers, name \in ServiceNames, outcome \in Outcomes :
           ResolveWithContextWithin(MaxBuilt, c, name, outcome)

SpecLifetime == InitLifetime /\ [][NextLifetime]_vars

(***************************************************************************)
(* SpecRequest: root <- parent <- child and two request containers of      *)
(* child; providers and decorators are registered, the request containers  *)
(* are decorated and cleared, names are resolved                           *)
(***************************************************************************)
(* The value request container rc is decorated with: each its own. *)
RequestValue(rc) == [kind |-> "requestData", owner |-> rc, id |-> 0]

ReplyHelper(rc) == [kind |-> "replyHelper", owner |-> rc, id |-> 0]

(* A DecorateRequest that writes into a map shared by the request          *)
(* containers of one module container.                                     *)
DecorateRequestOn_SharedData(cs, rc, name, value) ==
    [c \in DOMAIN cs |->
        IF cs[c].kind = "request" /\ cs[c].parent = cs[rc].parent
        THEN [cs[c] EXCEPT !.requestData = MapPut(@, name, value)]
        ELSE cs[c]]

(* rc.requestData[name] = value *)
DecorateRequestOn(cs, rc, name, value) ==
    [cs EXCEPT ![rc].requestData = MapPut(@, name, value)]

(* rc.replyHelpers[name] = fn *)
DecorateReplyOn(cs, rc, name, fn) ==
    [cs EXCEPT ![rc].replyHelpers = MapPut(@, name, fn)]

(* Clear deletes every key of requestData and of replyHelpers. *)
ClearOn(cs, rc) ==
    [cs EXCEPT ![rc].requestData = EmptyMap, ![rc].replyHelpers = EmptyMap]

DecorateRequest(rc, name) ==
    /\ containers[rc].kind = "request"
    /\ containers' = DecorateRequestOn(containers, rc, name, RequestValue(rc))
    /\ lastOp' = NoOp
    /\ UNCHANGED <<graphVars, pmVars, appVars, mode, built>>

DecorateReply(rc, name) ==
    /\ containers[rc].kind = "request"
    /\ containers' = DecorateReplyOn(containers, rc, name, ReplyHelper(rc))
    /\ lastOp' = NoOp
    /\ UNCHANGED <<graphVars, pmVars, appVars, mode, built>>

Clear(rc) ==
    /\ containers[rc].kind = "request"
    /\ containers' = ClearOn(containers, rc)
    /\ lastOp' = NoOp
    /\ UNCHANGED <<graphVars, pmVars, appVars, mode, built>>

(* root, parent on root, child on parent, two request scopes of child. *)
RequestHierarchy(exports) ==
    LET m2 == [NewModule("parent", "1.0.0") EXCEPT !.Exports = exports]
        m3 == NewModule("child", "1.0.0")
        c1 == <<NewDIContainer>>
        c2 == Append(c1, NewModuleContainer(c1, m2, FullRef(1)))
        c3 == Append(c2, NewModuleContainer(c2, m3, FullRef(2)))
        c4 == Append(c3, CreateRequestScope(3))
    IN  Append(c4, CreateRequestScope(3))

InitRequest ==
    /\ modules = NewModuleGraph.modules
    /\ edges = NewModuleGraph.edges
    /\ sortOut = NoSort
    /\ NewPluginManager
    /\ NoApp
    /\ \E exports \in SeqsUpTo(ServiceNames, 1) : containers = RequestHierarchy(exports)
    /\ mode = "Disabled"
    /\ built = 0
    /\ lastOp = NoOp

(* The containers providers are registered in, and the request container   *)
(* reply helpers are registered in: every one but the second request       *)
(* container.                                                              *)
RequestRegistrants == Containers \ {5}

(* The lifetime providers are registered with: a request container calls   *)
(* the provider whatever the lifetime is.                                  *)
RequestLifetimes == {"Transient"}

NextRequest ==
    \/ \E m \in EncapsulationModes : SetEncapsulationMode(m)
    \/ \E c \in RequestRegistrants, name \in ServiceNames, lifetime \in RequestLifetimes :
           RegisterProvider(c, name, lifetime)
    \/ \E mc \in Containers, name \in ServiceNames : Decorate(mc, name)
    \/ \E rc \in Containers, name \in ServiceNames : DecorateRequest(rc, name)
    \/ \E rc \in RequestRegistrants, name \in ServiceNames : DecorateReply(rc, name)
    \/ \E rc \in Containers : Clear(rc)
    \/ \E c \in Containers, name \in ServiceNames, outcome \in Outcomes :
           Resolve(c, name, outcome)

SpecRequest == InitRequest /\ [][NextRequest]_vars

(***************************************************************************)
(* Import relation of a graph                                              *)
(***************************************************************************)
DirectImports(g, n) == Range(EdgesOf(g, n))

RECURSIVE ImportsWithin(_, _, _)
ImportsWithin(g, S, k) ==
    IF k = 0 THEN S
    ELSE ImportsWithin(g, S \cup UNION {DirectImports(g, n) : n \in S}, k - 1)

(* Everything n imports, directly or transitively. *)
TransImports(g, n) == ImportsWithin(g, DirectImports(g, n), Cardinality(DOMAIN g.edges))

AllImportsRegistered(g) ==
    \A n \in DOMAIN g.modules : DirectImports(g, n) \subseteq DOMAIN g.modules

HasCycle(g) == \E n \in DOMAIN g.modules : n \in TransImports(g, n)

DependenciesFirst(g, order) ==
    /\ Len(order) = Cardinality(DOMAIN g.modules)
    /\ Range(order) = DOMAIN g.modules
    /\ \A n \in DOMAIN g.modules : \A d \in TransImports(g, n) :
           IndexOf(order, d) < IndexOf(order, n)

(***************************************************************************)
(* C1 and C7: TopologicalSort                                              *)
(***************************************************************************)
LeafMiddleRoot ==
    /\ DOMAIN modules = {"leaf", "middle", "root"}
    /\ edges["leaf"] = <<>>
    /\ edges["middle"] = <<"leaf">>
    /\ edges["root"] = <<"middle">>

(* C1: when every import names a registered module and the import relation *)
(* is acyclic, TopologicalSort succeeds and returns every registered       *)
(* module once, each after all the modules it imports directly or          *)
(* transitively; for leaf, middle (imports leaf), root (imports middle)    *)
(* the result is <<leaf, middle, root>>.                                   *)
C1_DependenciesFirst ==
    (sortOut.called /\ AllImportsRegistered(Graph) /\ ~HasCycle(Graph)) =>
        /\ sortOut.err = NoError
        /\ DependenciesFirst(Graph, sortOut.order)
        /\ LeafMiddleRoot => sortOut.order = <<"leaf", "middle", "root">>

(* C7 as stated: whenever the import relation has a cycle, TopologicalSort *)
(* returns a circular-dependency error and no module order.                *)
C7_CycleAlwaysCircularError ==
    (sortOut.called /\ HasCycle(Graph)) =>
        /\ sortOut.err = "circular dependency detected"
        /\ sortOut.order = <<>>

(* C7 amended: when every import names a registered module and the import  *)
(* relation has a cycle, TopologicalSort returns a circular-dependency     *)
(* error and no module order, whatever order the map iteration yields; a   *)
(* graph that also has an import of an unregistered module still gets an   *)
(* error and no order.                                                     *)
C7_CycleDetected ==
    (sortOut.called /\ HasCycle(Graph)) =>
        /\ sortOut.order = <<>>
        /\ sortOut.err # NoError
        /\ AllImportsRegistered(Graph) => sortOut.err = "circular dependency detected"

C7_Witness ==
    /\ sortOut.called
    /\ DOMAIN modules = {"leaf", "middle", "root"}
    /\ edges["leaf"] = <<"root">>
    /\ edges["middle"] = <<"leaf">>
    /\ edges["root"] = <<"middle">>
    /\ sortOut.err = "circular dependency detected"

(***************************************************************************)
(* C8, C9 and C10: the plugin manager                                      *)
(***************************************************************************)
ModuleNameOf(p) == ModuleFor(plugins[p]).Name

InitCalls(p) == Cardinality({i \in 1..Len(init.log) : init.log[i] = p})

(* C8: InitializePlugins calls Init in dependency order: for registered    *)
(* plugins p and q such that the module of p imports the module of q       *)
(* directly or transitively, every call of p.Init comes after a call of    *)
(* q.Init.                                                                 *)
C8_InitInDependencyOrder ==
    \A p \in DOMAIN plugins : \A q \in DOMAIN plugins :
        ModuleNameOf(q) \in TransImports(Graph, ModuleNameOf(p)) =>
            \A i \in 1..Len(init.log) :
                init.log[i] = p => \E j \in 1..(i - 1) : init.log[j] = q

(* C9: when InitializePlugins has returned nil, Init was called exactly    *)
(* once on every registered plugin, whatever its name and the name of its  *)
(* module.                                                                 *)
C9_EveryPluginInitOnce ==
    (init.pc = "returned" /\ init.err = NoError) =>
        \A p \in DOMAIN plugins : InitCalls(p) = 1

(* C10: a RegisterPlugin call that returns an error leaves the module      *)
(* graph, the plugin map, the module-prefix map and the hook lists as they *)
(* were before the call.                                                   *)
C10_FailedRegisterChangesNothing ==
    [][lastReg'.err # NoError =>
          UNCHANGED <<modules, edges, plugins, modulePrefixes, hooks, appHooks>>]_vars

(***************************************************************************)
(* C2 to C6: resolution across module containers                          *)
(***************************************************************************)
ResolutionEntryPoints == {"Resolve", "ResolveWithContext", "ResolveAs", "ResolveAsWithContext"}

(* The last call was one of ops, on one of the containers cs, for name. *)
Called(ops, cs, name) ==
    /\ lastOp.op \in ops
    /\ lastOp.c \in cs
    /\ lastOp.name = name

Holds(c, name) == name \in DOMAIN containers[c].services

(* Container 2 is P (module parent), container 3 is C (module child) with  *)
(* P as parent, 4 is a request container of C, 5 a scope of C.             *)
Chain == containers[3].module.Name = "child"

(* Container 2 is A, container 3 is B, both created with the root as parent. *)
Siblings == containers[3].module.Name = "moduleB"

(* P holds name and does not export it; C does not hold it. *)
PrivateInParent(name) ==
    /\ Chain
    /\ Holds(2, name)
    /\ ~Holds(3, name)
    /\ ~IsExported(containers[2].module, name)

NonGlobal == ~containers[2].module.Global /\ ~containers[3].module.Global

(* The last call returned the provider of container c. *)
ReturnedProviderOf(c) ==
    /\ lastOp.err = NoError
    /\ lastOp.served = c
    /\ lastOp.via = "provider"

(* C2: P and C non-global, P holds x and does not export it, C has P as    *)
(* parent and does not hold x, the factory of x does not fail.  Then       *)
(* C.Resolve(x) fails with an access-denied error naming C, P and x under  *)
(* Enforce, returns P's x and writes a warning under Warn, returns P's x   *)
(* and writes nothing under Disabled.                                      *)
C2_ResolveFollowsMode ==
    (Called({"Resolve"}, {3}, "x") /\ PrivateInParent("x") /\ NonGlobal
                                   /\ lastOp.made # "err") =>
        /\ mode = "Enforce" =>
               /\ lastOp.err = "cannot access unexported provider"
               /\ lastOp.from = "child"
               /\ lastOp.to = "parent"
        /\ mode = "Warn" => ReturnedProviderOf(2) /\ lastOp.warned
        /\ mode = "Disabled" => ReturnedProviderOf(2) /\ ~lastOp.warned

(* C3: under Enforce, with P and C non-global, no resolution entry point   *)
(* called on C, on the request container of C or on the scope created by   *)
(* C.CreateScope() returns a provider of P that P does not export.         *)
C3_NoEntryPointBypassesCheck ==
    (mode = "Enforce" /\ Called(ResolutionEntryPoints, {3, 4, 5}, "x")
                      /\ PrivateInParent("x") /\ NonGlobal) =>
        ~ReturnedProviderOf(2)

C5_ExportedSingletonShared ==
    (/\ Called({"Resolve", "ResolveWithContext"}, {3}, "x")
     /\ Chain
     /\ Holds(2, "x")
     /\ ~Holds(3, "x")
     /\ "x" \notin DOMAIN containers[3].decorators
     /\ IsExported(containers[2].module, "x")
     /\ lastOp.made \notin {"err", "nil"}) =>
        (containers[2].services["x"].Lifetime = "Singleton" =>
            /\ lastOp.err = NoError
            /\ lastOp.val = containers[2].services["x"].Instance)

(* C6: A and B both have the root as parent, x is registered only in A.    *)
(* Then B.Resolve(x) fails with the not-registered error under every mode, *)
(* and no resolution entry point of B returns the provider of A.           *)
C6_SiblingIsolation ==
    (/\ Called(ResolutionEntryPoints, {3}, "x")
     /\ Siblings
     /\ Holds(2, "x")
     /\ ~Holds(3, "x")
     /\ ~Holds(1, "x")) =>
        /\ lastOp.served # 2
        /\ lastOp.op = "Resolve" => lastOp.err = "service is not registered"

C6_Witness ==
    /\ Called({"Resolve"}, {3}, "x")
    /\ Siblings
    /\ Holds(2, "x")
    /\ containers[2].services["x"].Instance = InstanceOf(2, 1)
    /\ ~Holds(3, "x")
    /\ lastOp.err = "service is not registered"

(***************************************************************************)
(* C11 to C16: InitializePlugins with its goroutines, ShutdownPlugins      *)
(***************************************************************************)
(* The workers whose resolution has returned an error. *)
FailedWorkers ==
    pass.sending["err"] + pass.sending["deadline"]
        + pass.finished["err"] + pass.finished["deadline"]

(* The constructions that ran past the timeout of their provider and ended. *)
Overran == pass.finished["deadline"] + pass.finished["late"] + pass.sending["deadline"]

(* C11: when the module graph has an import of an unregistered module or a *)
(* cycle at the call of InitializePlugins, the call returns the            *)
(* dependency-resolution error, no worker for an async provider is ever    *)
(* started and Init is called on no plugin.                                *)
C11_GraphErrorAbortsStartup ==
    (init.pc # "idle" /\ (~AllImportsRegistered(Graph) \/ HasCycle(Graph))) =>
        /\ init.pc = "returned"
        /\ init.err = "failed to resolve module dependencies"
        /\ init.log = <<>>
        /\ pass = NoPass

C11_Witness ==
    /\ init.pc = "returned"
    /\ init.err = "failed to resolve module dependencies"
    /\ HasCycle(Graph)
    /\ AllImportsRegistered(Graph)
    /\ DOMAIN plugins = {"middle", "root"}
    /\ AsyncProvidersOf(<<"middle", "root">>) # {}

(* C12: at most 10 async provider resolutions are executing at any time of *)
(* the async pass, however many workers were started.                      *)
C12_AtMostTenResolving == Count(pass.resolving) <= 10

C12_Witness ==
    /\ Count(pass.resolving) = 10
    /\ Count(pass.waiting) = 2
    /\ Cardinality(DOMAIN plugins) = 3

(* C13: in a state where Init has been called on a plugin, or is about to  *)
(* be, no worker is waiting, resolving or sending; and while a resolution  *)
(* has failed Init has been called on no plugin.                           *)
C13_InitAfterBarrier ==
    /\ (init.pc = "init" \/ init.log # <<>>) => WaitCounter = 0
    /\ FailedWorkers > 0 => (init.log = <<>> /\ init.pc # "init")

C13_Witness ==
    /\ init.log # <<>>
    /\ pass.finished["value"] = 4
    /\ pass.finished["late"] = 1
    /\ WaitCounter = 0

(* C14: when the async pass has returned and k >= 1 resolutions failed,    *)
(* every worker has finished, the errors collected are one for each failed *)
(* resolution, and InitializePlugins returns the async error; also when k  *)
(* is larger than the capacity of errChan.                                 *)
C14_AllFailuresReported ==
    (pass.pc = "returned" /\ FailedWorkers >= 1) =>
        /\ WaitCounter = 0
        /\ pass.errors["err"] = pass.finished["err"]
        /\ pass.errors["deadline"] = pass.finished["deadline"]
        /\ Count(pass.errors) = FailedWorkers
        /\ init.pc = "returned"
        /\ init.err = "async provider initialization failed"

C14_Witness ==
    /\ pass.pc = "returned"
    /\ pass.cap = 1
    /\ pass.errors["err"] = 2
    /\ pass.finished["value"] = 1

(* C15: when the async pass has returned and the construction of some      *)
(* async provider ran past the timeout of the provider, InitializePlugins  *)
(* has returned the async error and a collected error is deadline exceeded. *)
C15_TimeoutReported ==
    (pass.pc = "returned" /\ Overran > 0) =>
        /\ init.pc = "returned"
        /\ init.err = "async provider initialization failed"
        /\ pass.errors["deadline"] > 0

(* C16: ShutdownPlugins calls Shutdown on every registered plugin, also    *)
(* when the Shutdown of some plugins returns an error.                     *)
C16_ShutdownReachesEveryPlugin ==
    shut.called => Range(shut.log) = DOMAIN plugins

(***************************************************************************)
(* C17 and C18: lifetimes in each kind of container                        *)
(***************************************************************************)
(* This step is a call of one of ops on container c for name that returns  *)
(* no error, and the state it starts in is the return of such a call that  *)
(* returned an instance: the two calls are successive.                     *)
Successive(ops, c, name) ==
    /\ Called(ops, {c}, name)
    /\ lastOp.err = NoError
    /\ lastOp.val # NilValue
    /\ lastOp'.op \in ops
    /\ lastOp'.c = c
    /\ lastOp'.name = name
    /\ lastOp'.err = NoError

LifetimeOf(c, name) == containers[c].services[name].Lifetime

(* C17: on the root container, on a module container and on a request     *)
(* container, two successive Resolve calls of a locally registered         *)
(* Singleton return the identical instance, and two successive Resolve     *)
(* calls of a locally registered Transient each invoke the provider and    *)
(* return distinct instances.                                              *)
C17_SingletonSameTransientFresh ==
    [][\A c \in Containers :
          (Successive({"Resolve"}, c, "x") /\ Holds(c, "x")) =>
              /\ LifetimeOf(c, "x") = "Singleton" => lastOp'.val = lastOp.val
              /\ LifetimeOf(c, "x") = "Transient" =>
                     /\ lastOp'.made # "none"
                     /\ lastOp'.val # NilValue => lastOp'.val # lastOp.val]_vars

(* C18: two successive resolutions of a Scoped provider registered in a    *)
(* module container return the identical instance, the second without      *)
(* invoking the provider; two successive resolutions of a Scoped provider  *)
(* registered in a request container each invoke the provider.             *)
C18_ScopedCachedInModule ==
    [][\A c \in Containers :
          (/\ Successive({"Resolve", "ResolveWithContext"}, c, "x")
           /\ Holds(c, "x")
           /\ LifetimeOf(c, "x") = "Scoped") =>
              /\ containers[c].kind = "module" =>
                     (lastOp'.val = lastOp.val /\ lastOp'.made = "none")
              /\ containers[c].kind = "request" => lastOp'.made # "none"]_vars

(***************************************************************************)
(* C19 and C20: request containers                                         *)
(*                                                                         *)
(* In SpecRequest container 1 is the root, 2 the module container of       *)
(* parent, 3 the module container of child on 2, 4 and 5 the request       *)
(* containers of 3.                                                        *)
(***************************************************************************)
RequestContainers == {c \in Containers : containers[c].kind = "request"}

Decorated(rc, name) == name \in DOMAIN containers[rc].requestData

(* C19: a request container that has decorated x resolves x to its own     *)
(* value, whatever the other request container of the same module          *)
(* container has decorated x with; and a value a request container was     *)
(* decorated with is returned by no Resolve on another container, request  *)
(* or module.                                                              *)
C19_RequestIsolation ==
    /\ \A rc \in RequestContainers :
           (Called({"Resolve"}, {rc}, "x") /\ Decorated(rc, "x")) =>
               (lastOp.err = NoError /\ lastOp.val = RequestValue(rc))
    /\ (lastOp.op = "Resolve" /\ lastOp.val.kind = "requestData") =>
           lastOp.val.owner = lastOp.c

C19_Witness ==
    /\ Called({"Resolve"}, {5}, "x")
    /\ Decorated(4, "x")
    /\ Decorated(5, "x")
    /\ containers[4].requestData["x"] = RequestValue(4)
    /\ lastOp.val = RequestValue(5)
    /\ Holds(3, "x")

(* The last call returned what the request decoration, the reply helper of *)
(* rc holds, without a provider call.                                      *)
ReturnedRequestData(rc, name) ==
    /\ lastOp.err = NoError
    /\ lastOp.via = "requestData"
    /\ lastOp.val = containers[rc].requestData[name]
    /\ lastOp.made = "none"

ReturnedReplyHelper(rc, name) ==
    /\ lastOp.err = NoError
    /\ lastOp.via = "replyHelper"
    /\ lastOp.val = containers[rc].replyHelpers[name]
    /\ lastOp.made = "none"

(* The last call called the provider registered in c and returned what it  *)
(* returned.                                                               *)
InvokedProviderOf(c) ==
    /\ lastOp.served = c
    /\ lastOp.made # "none"
    /\ lastOp.via \in {"provider", "none"}

ReturnedDecoratorOf(mc) ==
    /\ lastOp.err = NoError
    /\ lastOp.via = "decorator"
    /\ lastOp.val = DecoratorValue(mc)
    /\ lastOp.made = "none"

NotRegistered ==
    /\ lastOp.err \in {"service is not registered", "service is not registered in module"}
    /\ lastOp.made = "none"

NowhereRegistered(name) ==
    \A c \in Containers :
        /\ ~Holds(c, name)
        /\ name \notin DOMAIN containers[c].decorators
        /\ name \notin DOMAIN containers[c].requestData
        /\ name \notin DOMAIN containers[c].replyHelpers

(* C21: when no container has x, Resolve(x) on a container of any kind     *)
(* fails under every mode with a not-registered error raised for the       *)
(* container Resolve was called on; on a module container the error is the *)
(* one naming its module.                                                  *)
C21_NotRegisteredNamesCallee ==
    (Called({"Resolve"}, Containers, "x") /\ NowhereRegistered("x")) =>
        /\ lastOp.err \in {"service is not registered",
                           "service is not registered in module"}
        /\ lastOp.at = lastOp.c
        /\ containers[lastOp.c].kind = "module" =>
               lastOp.err = "service is not registered in module"

(***************************************************************************)
(* C22: registering a registered name                                      *)
(***************************************************************************)
(* C22: a registration under a name the container already has returns the  *)
(* already-registered error and leaves every container, with the           *)
(* registration and its cached instance, as it was; a registration under a *)
(* name the container does not have succeeds, whatever its ancestors have. *)
C22_DuplicateRegistrationRejected ==
    [][\A c \in Containers :
          (lastOp'.op = "RegisterProvider" /\ lastOp'.c = c) =>
              IF Holds(c, lastOp'.name)
              THEN /\ lastOp'.err = "service is already registered"
                   /\ containers' = containers
              ELSE /\ lastOp'.err = NoError
                   /\ lastOp'.name \in DOMAIN containers'[c].services
                   /\ \A k \in Containers \ {c} : containers'[k] = containers[k]]_vars

C22_Witness ==
    /\ lastOp.op = "RegisterProvider"
    /\ lastOp.c = 1
    /\ lastOp.err = "service is already registered"
    /\ Holds(1, "x")
    /\ containers[1].services["x"].Lifetime = "Singleton"
    /\ containers[1].services["x"].Instance = InstanceOf(1, 1)
    /\ Holds(2, "x")

(***************************************************************************)
(* SpecValidate: Module.Validate applied to constructed modules            *)
(***************************************************************************)
MaxProviders == 2
MaxExports == 2

(* The providers a module is given: nil, one without a name, two named. *)
ValidateProviders ==
    {NilProvider} \cup {[Name |-> n, IsAsync |-> FALSE] : n \in {"", "a", "b"}}

(* The prefixes a module is given, character by character. *)
ValidatePrefixes ==
    {<<>>, <<"/">>, <<"a">>, <<"/", "a">>, <<"/", ".", ".">>, <<"/", ".", "a", ".">>,
     <<".", ".">>}

(* The modules Validate is called on. *)
ValidateInputs ==
    {[NewModule(n, v) EXCEPT !.Providers = ps, !.Exports = es, !.Prefix = px] :
        n \in {"", "test"}, v \in {"", "1.0.0"},
        ps \in SeqsUpTo(ValidateProviders, MaxProviders),
        es \in SeqsUpTo({"a", "b"}, MaxExports),
        px \in ValidatePrefixes}

(* A module has been constructed and nothing has been called on it. *)
InitValidate ==
    /\ modules = NewModuleGraph.modules
    /\ edges = NewModuleGraph.edges
    /\ sortOut = NoSort
    /\ NewPluginManager
    /\ NoApp
    /\ containers = <<>>
    /\ mode = "Disabled"
    /\ built = 0
    /\ \E m \in ValidateInputs : lastOp = [op |-> "Module", m |-> m]

(* One call of m.Validate(); Validate reads the module and writes nothing. *)
ModuleValidate ==
    /\ lastOp.op = "Module"
    /\ lastOp' = [op |-> "Validate", m |-> lastOp.m, err |-> Validate(lastOp.m)]
    /\ UNCHANGED <<graphVars, pmVars, appVars, containers, mode, built>>

NextValidate == ModuleValidate

SpecValidate == InitValidate /\ [][NextValidate]_vars

(***************************************************************************)
(* C23: what Validate rejects and what it accepts                          *)
(***************************************************************************)
NamedProviders(m) ==
    {i \in 1..Len(m.Providers) : m.Providers[i] # NilProvider}

Defective(m) ==
    \/ m.Name = ""
    \/ m.Version = ""
    \/ \E i, j \in NamedProviders(m) : i # j /\ m.Providers[i].Name = m.Providers[j].Name
    \/ \E i, j \in 1..Len(m.Exports) : i # j /\ m.Exports[i] = m.Exports[j]
    \/ \E i \in 1..Len(m.Exports) :
           \A j \in NamedProviders(m) : m.Providers[j].Name # m.Exports[i]
    \/ /\ m.Prefix # <<>>
       /\ \/ m.Prefix[1] # "/"
          \/ \E i \in 1..(Len(m.Prefix) - 1) : m.Prefix[i] = "." /\ m.Prefix[i + 1] = "."

WellFormedProviders(m) ==
    \A i \in 1..Len(m.Providers) :
        m.Providers[i] # NilProvider /\ m.Providers[i].Name # ""

(* C23: Validate returns an error for every module with an empty name or   *)
(* version, a repeated provider name, a repeated export, an export without *)
(* a provider or a bad prefix, and nil for every module without any of     *)
(* these whose providers are all non-nil and named.                        *)
C23_ValidateRejectsDefects ==
    lastOp.op = "Validate" =>
        /\ Defective(lastOp.m) => lastOp.err # NoError
        /\ (~Defective(lastOp.m) /\ WellFormedProviders(lastOp.m)) => lastOp.err = NoError

C23_Witness ==
    /\ lastOp.op = "Validate"
    /\ Len(lastOp.m.Providers) = 2
    /\ Len(lastOp.m.Exports) = 2
    /\ lastOp.m.Prefix = <<"/", ".", ".">>
    /\ lastOp.err = "prefix contains invalid path traversal"

(***************************************************************************)
(* C24: two invocations of TopologicalSort on one graph                    *)
(***************************************************************************)
(* C24: an invocation of TopologicalSort that follows another on the same  *)
(* modules and imports returns the same sequence and the same error,       *)
(* whatever order the iteration over the map of modules yields.            *)
C24_SortDeterministic ==
    [][(sortOut.called /\ sortOut'.called /\ modules' = modules /\ edges' = edges) =>
           sortOut' = sortOut]_vars

(***************************************************************************)
(* SpecScope: root, a module container on it, a request container of the   *)
(* module container, and two scopes CreateScope made of one of the three;  *)
(* providers are registered in that container and in its scopes            *)
(***************************************************************************)
(* A Has that looks at the container's own services only. *)
Has_OwnOnly(cs, c, name) == name \in DOMAIN cs[c].services

(* diContainer.Has, which no container kind overrides: the container's own *)
(* services, then the parent's Has.                                        *)
RECURSIVE Has(_, _, _)
Has(cs, c, name) ==
    IF name \notin DOMAIN cs[c].services /\ cs[c].parent # NilRef
    THEN Has(cs, cs[c].parent.id, name)
    ELSE name \in DOMAIN cs[c].services

(* The container the three base containers stand for in turn. *)
ScopeParents == {1, 2, 3}

ScopeHierarchy(parent) ==
    LET c1 == <<NewDIContainer>>
        c2 == Append(c1, NewModuleContainer(c1, DefaultModule("test", "1.0.0"), FullRef(1)))
        c3 == Append(c2, CreateRequestScope(2))
        c4 == Append(c3, CreateScope(parent))
    IN  Append(c4, CreateScope(parent))

InitScope ==
    /\ modules = NewModuleGraph.modules
    /\ edges = NewModuleGraph.edges
    /\ sortOut = NoSort
    /\ NewPluginManager
    /\ NoApp
    /\ \E parent \in ScopeParents : containers = ScopeHierarchy(parent)
    /\ mode = "Disabled"
    /\ built = 0
    /\ lastOp = NoOp

(* The container CreateScope was called on. *)
ScopeParent == containers[4].parent.id

Scopes == {4, 5}

HasOn(c, name) ==
    /\ lastOp' = [op |-> "Has", c |-> c, name |-> name, result |-> Has(containers, c, name)]
    /\ UNCHANGED <<graphVars, pmVars, appVars, containers, mode, built>>

NextScope ==
    \/ \E c \in Scopes \cup {ScopeParent}, name \in ServiceNames,
          lifetime \in RegisteredLifetimes :
           RegisterProvider(c, name, lifetime)
    \/ \E rc \in Containers, name \in ServiceNames : DecorateRequest(rc, name)
    \/ \E c \in Containers, name \in ServiceNames, outcome \in Outcomes :
           ResolveWithin(MaxBuilt, c, name, outcome)
    \/ \E c \in Containers, name \in ServiceNames : HasOn(c, name)

SpecScope == InitScope /\ [][NextScope]_vars

(***************************************************************************)
(* C25: Has                                                                *)
(***************************************************************************)
(* The container and the containers its parent pointers lead to. *)
RECURSIVE Lineage(_)
Lineage(c) ==
    {c} \cup (IF containers[c].parent = NilRef THEN {} ELSE Lineage(containers[c].parent.id))

(* C25: a call of Has returns true exactly when the container or one of    *)
(* its ancestors has the name in its services, and it leaves every         *)
(* container, every cached instance and the count of constructed instances *)
(* as they were.                                                           *)
C25_HasReadsServicesOnly ==
    [][lastOp'.op = "Has" =>
          /\ lastOp'.result = (\E k \in Lineage(lastOp'.c) : Holds(k, lastOp'.name))
          /\ containers' = containers
          /\ built' = built]_vars

C25_Witness ==
    /\ lastOp.op = "Has"
    /\ lastOp.c = 4
    /\ lastOp.result
    /\ ~Holds(4, "x")
    /\ Holds(ScopeParent, "x")
    /\ containers[ScopeParent].services["x"].Lifetime = "Singleton"
    /\ containers[ScopeParent].services["x"].Instance = NilValue

(***************************************************************************)
(* C26: the scopes CreateScope returns                                     *)
(***************************************************************************)
WorldAfter == [cs |-> containers', built |-> built', warned |-> FALSE, ctx |-> "caller"]

(* What Resolve(name) on container c returns in world w when the factory   *)
(* it may reach does outcome.                                              *)
Answer(w, c, name, outcome) ==
    LET r == ResolveOn(w, FullRef(c), name, outcome)
    IN  [val |-> r.val, err |-> r.err, served |-> r.served, via |-> r.via]

(* A registration in a scope leaves Has and Resolve of c as they were. *)
UntouchedByRegistration(c) ==
    /\ Has(containers', c, "x") = Has(containers, c, "x")
    /\ \A outcome \in Outcomes :
           Answer(WorldAfter, c, "x", outcome) = Answer(World, c, "x", outcome)

(* C26: a scope starts empty; a registration made in a scope changes       *)
(* neither what Has and Resolve return on the container CreateScope was    *)
(* called on nor what they return on the other scope of that container; a  *)
(* name registered in that container and not in the scope resolves through *)
(* the scope to what Resolve on that container returns, and a Singleton so  *)
(* resolved is cached in that container.                                   *)
C26_ScopeIsolatedAndTransparent ==
    [][/\ \A c \in Scopes :
              (lastOp'.op = "RegisterProvider" /\ lastOp'.c = c /\ lastOp'.err = NoError) =>
                  /\ UntouchedByRegistration(ScopeParent)
                  /\ \A other \in Scopes \ {c} : UntouchedByRegistration(other)
       /\ \A c \in Scopes :
              (/\ lastOp'.op = "Resolve" /\ lastOp'.c = c /\ lastOp' # lastOp
               /\ Holds(ScopeParent, "x") /\ ~Holds(c, "x")) =>
                  LET outcome == IF lastOp'.made = "none" THEN "value" ELSE lastOp'.made
                      direct == Answer(World, ScopeParent, "x", outcome)
                  IN  /\ lastOp'.val = direct.val
                      /\ lastOp'.err = direct.err
                      /\ lastOp'.served = direct.served
                      /\ (/\ containers[ScopeParent].services["x"].Lifetime = "Singleton"
                          /\ lastOp'.err = NoError /\ lastOp'.val # NilValue) =>
                             containers'[ScopeParent].services["x"].Instance = lastOp'.val]_vars

(***************************************************************************)
(* SpecAsync: the containers of SpecLifetime with async providers, resolved *)
(* with ResolveWithContext                                                  *)
(***************************************************************************)
(* What the factory of the async provider does in one call; a factory that *)
(* never returns leaves the call without a return.                         *)
AsyncOutcomes == Factories \ {"never"}

InitAsync == InitLifetime

NextAsync ==
    \/ \E c \in Containers, name \in ServiceNames, lifetime \in Lifetimes :
           RegisterProvider(c, name, lifetime)
    \/ \E c \in Containers, name \in ServiceNames, outcome \in AsyncOutcomes :
           ResolveWithContextWithin(MaxBuilt, c, name, outcome)

SpecAsync == InitAsync /\ [][NextAsync]_vars

(***************************************************************************)
(* C27: a construction that outlasts the timeout of its async provider     *)
(***************************************************************************)
(* errors.Is(err, context.DeadlineExceeded) of the error the last call     *)
(* returned: the error itself, or the cause the Singleton case wrapped.    *)
IsDeadlineExceeded ==
    \/ lastOp.err = "context deadline exceeded"
    \/ lastOp.err = "failed to create singleton service" /\ lastOp.made = "deadline"

(* C27: when the construction a ResolveWithContext started ran until the   *)
(* timeout of the async provider or beyond, the call returns an error that *)
(* identifies as deadline exceeded, and the registration it was served     *)
(* from holds no cached instance, whatever the lifetime.                   *)
C27_TimeoutIsDeadlineExceeded ==
    (Called({"ResolveWithContext"}, Containers, "x") /\ lastOp.made \in {"deadline", "late"}) =>
        /\ IsDeadlineExceeded
        /\ lastOp.val = NilValue
        /\ containers[lastOp.served].services["x"].Instance = NilValue

(***************************************************************************)
(* SpecApp: one run of a DoffApp (app.go, router.go): the main goroutine   *)
(* registers a plugin and a route, starts Listen in a goroutine and, once  *)
(* the server is serving, calls Shutdown; Listen starts the goroutine that *)
(* executes the OnListen hooks                                             *)
(***************************************************************************)
(* The plugin of the run: with or without a module of its own, with the    *)
(* six hooks in either order.                                              *)
AppPlugins ==
    {[Name |-> "mock", Version |-> "1.0.0", Module |-> m, RegisterOK |-> ok,
      Hooks |-> <<>>, AppHooks |-> h] :
        m \in {NilModule,
               [NewModule("mock", "1.0.0") EXCEPT !.Providers = <<AsyncProv("db")>>]},
        ok \in BOOLEAN,
        h \in {HookEvents, Reverse(HookEvents)}}

(* CreateDoffApp: the root container and the plugin manager exist, Listen  *)
(* and Shutdown have not been called, there is no httpServer.              *)
CreateDoffApp ==
    /\ app = [main |-> "created", listen |-> "idle", listener |-> "none",
              shutdown |-> "idle", httpServer |-> "nil"]
    /\ executionOrder = <<>>
    /\ goroutines = <<>>
    /\ containers = <<NewDIContainer>>
    /\ mode = "Disabled"
    /\ built = 0
    /\ lastOp = NoOp

InitApp ==
    /\ modules = NewModuleGraph.modules
    /\ edges = NewModuleGraph.edges
    /\ sortOut = NoSort
    /\ NewPluginManager
    /\ CreateDoffApp

AppUnchanged == UNCHANGED <<graphVars, pmVars, diVars, goroutines>>

(* app.RegisterPlugin(plugin), the first call of the main goroutine. *)
App_RegisterPlugin ==
    /\ app.main = "created"
    /\ ~lastReg.called
    /\ \E plugin \in AppPlugins : RegisterPlugin(plugin)

(* router.GET: triggerOnRoute resolves the plugin manager and calls its    *)
(* ExecuteOnRoute, then the route is added to the engine.                  *)
Router_GET ==
    /\ app.main = "created"
    /\ lastReg.called /\ lastReg.err = NoError
    /\ executionOrder' = executionOrder \o Execute(appHooks, "OnRoute")
    /\ app' = [app EXCEPT !.main = "routed"]
    /\ AppUnchanged

(* go func() { app.Listen() }() *)
Main_GoListen ==
    /\ app.main = "routed"
    /\ app' = [app EXCEPT !.main = "started", !.listen = "onReady"]
    /\ UNCHANGED executionOrder
    /\ AppUnchanged

(* Listen: ExecuteOnReady; an error of a hook makes Listen panic. *)
Listen_OnReady ==
    /\ app.listen = "onReady"
    /\ \E ok \in BOOLEAN :
          /\ ok \/ "OnReady" \in Range(appHooks)
          /\ app' = [app EXCEPT !.listen = IF ok THEN "initialize" ELSE "panicked"]
    /\ executionOrder' = executionOrder \o Execute(appHooks, "OnReady")
    /\ AppUnchanged

(* Listen: what follows InitializePlugins up to the creation of the        *)
(* http.Server; an error of InitializePlugins or of RegisterRoutes makes   *)
(* Listen panic.                                                           *)
Listen_RegisterRoutes ==
    /\ app.listen = "initialize"
    /\ init.pc = "returned"
    /\ \E routesOK \in BOOLEAN :
          app' = IF init.err # NoError \/ ~routesOK
                 THEN [app EXCEPT !.listen = "panicked"]
                 ELSE [app EXCEPT !.listen = "spawn", !.httpServer = "created"]
    /\ UNCHANGED executionOrder
    /\ AppUnchanged

(* Listen: the go statement of the goroutine that sleeps and then executes *)
(* the OnListen hooks.                                                     *)
Listen_GoOnListen ==
    /\ app.listen = "spawn"
    /\ app' = [app EXCEPT !.listen = "serve", !.listener = "sleeping"]
    /\ UNCHANGED executionOrder
    /\ AppUnchanged

(* Listen: httpServer.ListenAndServe() starts serving and blocks. *)
Listen_ListenAndServe ==
    /\ app.listen = "serve"
    /\ app' = [app EXCEPT !.listen = "serving", !.httpServer = "serving"]
    /\ UNCHANGED executionOrder
    /\ AppUnchanged

(* The goroutine of Listen: after its sleep, ExecuteOnListen. *)
Listener_OnListen ==
    /\ app.listener = "sleeping"
    /\ executionOrder' = executionOrder \o Execute(appHooks, "OnListen")
    /\ app' = [app EXCEPT !.listener = "done"]
    /\ AppUnchanged

(* Shutdown, called by the main goroutine once the server is serving:      *)
(* ExecutePreClose.                                                        *)
Shutdown_PreClose ==
    /\ app.main = "started"
    /\ app.listen = "serving"
    /\ executionOrder' = executionOrder \o Execute(appHooks, "PreClose")
    /\ app' = [app EXCEPT !.main = "shutdown", !.shutdown = "server"]
    /\ AppUnchanged

(* Shutdown: httpServer.Shutdown; ListenAndServe returns ErrServerClosed   *)
(* and Listen returns.                                                     *)
Shutdown_HttpServer ==
    /\ app.shutdown = "server"
    /\ app' = [app EXCEPT !.shutdown = "onClose", !.httpServer = "closed",
                          !.listen = "returned"]
    /\ UNCHANGED executionOrder
    /\ AppUnchanged

(* Shutdown: ExecuteOnClose; an error of a hook is logged only. *)
Shutdown_OnClose ==
    /\ app.shutdown = "onClose"
    /\ executionOrder' = executionOrder \o Execute(appHooks, "OnClose")
    /\ app' = [app EXCEPT !.shutdown = "plugins"]
    /\ AppUnchanged

(* Shutdown: after ShutdownPlugins, whose error is logged only, it returns. *)
Shutdown_Return ==
    /\ app.shutdown = "plugins"
    /\ shut.called
    /\ app' = [app EXCEPT !.shutdown = "returned"]
    /\ UNCHANGED executionOrder
    /\ AppUnchanged

NextApp ==
    \/ App_RegisterPlugin
    \/ Router_GET
    \/ Main_GoListen
    \/ Listen_OnReady
    \/ app.listen = "initialize" /\ InitializePlugins_Order
    \/ app.listen = "initialize" /\ InitializePlugins_Async
    \/ app.listen = "initialize" /\ InitializePlugins_Init
    \/ app.listen = "initialize" /\ InitializePlugins_Return
    \/ Listen_RegisterRoutes
    \/ Listen_GoOnListen
    \/ Listen_ListenAndServe
    \/ Listener_OnListen
    \/ Shutdown_PreClose
    \/ Shutdown_HttpServer
    \/ Shutdown_OnClose
    \/ app.shutdown = "plugins" /\ ShutdownPlugins
    \/ Shutdown_Return

SpecApp == InitApp /\ [][NextApp]_vars

(***************************************************************************)
(* C28: the order of the application hooks                                 *)
(***************************************************************************)
IsPrefix(s, t) == Len(s) <= Len(t) /\ \A i \in 1..Len(s) : s[i] = t[i]

(* C28: at every point of the run the hooks that have fired are a prefix   *)
(* of OnRegister, OnRoute, OnReady, OnListen, PreClose, OnClose; Init has   *)
(* been called on a plugin only after the OnReady hooks, and Shutdown on a *)
(* plugin only after the PreClose and the OnClose hooks.                   *)
C28_HooksInFixedOrder ==
    /\ IsPrefix(executionOrder, HookEvents)
    /\ init.log # <<>> => "OnReady" \in Range(executionOrder)
    /\ shut.called => {"PreClose", "OnClose"} \subseteq Range(executionOrder)

(***************************************************************************)
(* C29: the module graph of the plugin manager                             *)
(***************************************************************************)
(* C29: after any sequence of RegisterPlugin calls, failed or not, every   *)
(* import in the graph names a module of the graph and no module imports   *)
(* itself, directly or through other modules.                              *)
C29_GraphClosedAndAcyclic ==
    lastReg.called => (AllImportsRegistered(Graph) /\ ~HasCycle(Graph))

(***************************************************************************)
(* SpecSingleton: goroutines resolving the Singleton x of the root          *)
(* container or of a module container, statement by statement of the case  *)
(* Singleton of diContainer.ResolveWithContext and of                      *)
(* ModuleContainer.ResolveWithContext, which are the same statements       *)
(***************************************************************************)
MaxGoroutines == 2

Goroutines == 1..MaxGoroutines

(* A goroutine that is in no call. *)
IdleGoroutine == [pc |-> "idle", c |-> 0, instance |-> NilValue, val |-> NilValue,
                  err |-> NoError]

InitSingleton ==
    /\ modules = NewModuleGraph.modules
    /\ edges = NewModuleGraph.edges
    /\ sortOut = NoSort
    /\ NewPluginManager
    /\ app = [main |-> "none", listen |-> "none", listener |-> "none",
              shutdown |-> "none", httpServer |-> "nil"]
    /\ executionOrder = <<>>
    /\ goroutines = [g \in Goroutines |-> IdleGoroutine]
    /\ containers =
          LET c1 == <<NewDIContainer>>
          IN  Append(c1, NewModuleContainer(c1, DefaultModule("test", "1.0.0"), FullRef(1)))
    /\ mode = "Disabled"
    /\ built = 0
    /\ lastOp = NoOp

GoroutineUnchanged == UNCHANGED <<graphVars, pmVars, app, executionOrder, mode, lastOp>>

(* The call and the read of c.services[name] under the read lock, which is *)
(* released before anything else is done; the goroutines of the run call   *)
(* a container that holds x itself, as a Singleton.                        *)
Goroutine_Lookup(g, c) ==
    /\ goroutines[g].pc = "idle"
    /\ built < MaxBuilt
    /\ "x" \in DOMAIN containers[c].services
    /\ containers[c].services["x"].Lifetime = "Singleton"
    /\ goroutines' = [goroutines EXCEPT ![g] = [IdleGoroutine EXCEPT !.pc = "check", !.c = c]]
    /\ UNCHANGED <<containers, built>>
    /\ GoroutineUnchanged

(* if service.Instance != nil { return service.Instance, nil }, read with  *)
(* no lock held; otherwise provider.Resolve is called.                     *)
Goroutine_Check(g) ==
    /\ goroutines[g].pc = "check"
    /\ LET cached == containers[goroutines[g].c].services["x"].Instance
       IN  goroutines' = [goroutines EXCEPT ![g] =
                             IF cached # NilValue
                             THEN [@ EXCEPT !.pc = "returned", !.val = cached]
                             ELSE [@ EXCEPT !.pc = "constructing"]]
    /\ UNCHANGED <<containers, built>>
    /\ GoroutineUnchanged

(* provider.Resolve returns, with no lock held during the construction; an *)
(* error is wrapped and returned.                                          *)
Goroutine_Constructed(g, outcome) ==
    /\ goroutines[g].pc = "constructing"
    /\ LET made == ProviderResolve(World, goroutines[g].c, outcome)
       IN  /\ made.w.built <= MaxBuilt
           /\ built' = made.w.built
           /\ goroutines' = [goroutines EXCEPT ![g] =
                                 IF made.err # NoError
                                 THEN [@ EXCEPT !.pc = "returned",
                                                !.err = "failed to create singleton service"]
                                 ELSE [@ EXCEPT !.pc = "store", !.instance = made.val]]
    /\ UNCHANGED containers
    /\ GoroutineUnchanged

(* c.mu.Lock(); service.Instance = instance; c.mu.Unlock(); return instance *)
Goroutine_Store(g) ==
    /\ goroutines[g].pc = "store"
    /\ containers' = [containers EXCEPT
                          ![goroutines[g].c].services["x"].Instance = goroutines[g].instance]
    /\ goroutines' = [goroutines EXCEPT ![g] =
                          [@ EXCEPT !.pc = "returned", !.val = goroutines[g].instance]]
    /\ UNCHANGED built
    /\ GoroutineUnchanged

(* The caller has its result; the goroutine may make another call. *)
Goroutine_Done(g) ==
    /\ goroutines[g].pc = "returned"
    /\ goroutines' = [goroutines EXCEPT ![g] = IdleGoroutine]
    /\ UNCHANGED <<containers, built>>
    /\ GoroutineUnchanged

NextSingleton ==
    \/ \E c \in Containers : RegisterProvider(c, "x", "Singleton")
    \/ \E g \in Goroutines, c \in Containers : Goroutine_Lookup(g, c)
    \/ \E g \in Goroutines : Goroutine_Check(g)
    \/ \E g \in Goroutines, outcome \in {"value", "err"} : Goroutine_Constructed(g, outcome)
    \/ \E g \in Goroutines : Goroutine_Store(g)
    \/ \E g \in Goroutines : Goroutine_Done(g)

SpecSingleton == InitSingleton /\ [][NextSingleton]_vars

(***************************************************************************)
(* C30: concurrent first resolutions of a Singleton                        *)
(***************************************************************************)
(* C30: no two goroutines are inside the construction of the Singleton x   *)
(* of the same container at the same time.                                 *)
C30_ConstructionSerialized ==
    \A g, h \in Goroutines :
        (/\ g # h
         /\ goroutines[g].pc = "constructing"
         /\ goroutines[h].pc = "constructing") =>
            goroutines[g].c # goroutines[h].c

(***************************************************************************)
(* C31: the cached instance of a Singleton under concurrent resolutions    *)
(***************************************************************************)
(* C31: once the Singleton x of a container has a cached instance, which   *)
(* is what every resolution that starts later returns, no step of any      *)
(* goroutine replaces it by another instance.                              *)
C31_PopulatedCacheNeverChanges ==
    [][\A c \in Containers :
          (/\ "x" \in DOMAIN containers[c].services
           /\ containers[c].services["x"].Instance # NilValue) =>
              containers'[c].services["x"].Instance =
                  containers[c].services["x"].Instance]_vars

(***************************************************************************)
(* C32: when the provider of a Singleton is invoked                        *)
(***************************************************************************)
(* The root container and the module containers. *)
CachingContainers == {c \in Containers : containers[c].kind \in {"di", "module"}}

(* This step is a resolution on c of the x that c holds, made right after  *)
(* a resolution on c of the same x.                                        *)
ResolvedAgain(c) ==
    /\ Called({"Resolve", "ResolveWithContext"}, {c}, "x")
    /\ Holds(c, "x")
    /\ lastOp.served = c
    /\ lastOp'.op \in {"Resolve", "ResolveWithContext"}
    /\ lastOp'.c = c
    /\ lastOp'.name = "x"

(* C32: a registration invokes no provider.  For a Singleton of a root or  *)
(* module container, after a resolution whose construction failed nothing  *)
(* is cached and the next resolution invokes the provider again; after a   *)
(* resolution whose construction succeeded, whatever value it returned,    *)
(* the next resolution does not invoke the provider.  No resolution of a   *)
(* Transient or Scoped provider leaves a cached instance.                  *)
C32_ProviderInvokedUntilSuccess ==
    [][/\ lastOp'.op = "RegisterProvider" => built' = built
       /\ \A c \in CachingContainers :
             (ResolvedAgain(c) /\ LifetimeOf(c, "x") = "Singleton") =>
                 /\ lastOp.err # NoError =>
                        /\ lastOp.val = NilValue
                        /\ containers[c].services["x"].Instance = NilValue
                        /\ lastOp'.made # "none"
                 /\ lastOp.err = NoError => lastOp'.made = "none"
       /\ \A c \in Containers :
             (Holds(c, "x") /\ LifetimeOf(c, "x") # "Singleton") =>
                 containers'[c].services["x"].Instance = NilValue]_vars

(***************************************************************************)
(* SpecLocks: goroutines calling RegisterProvider, Decorate, Has, Resolve  *)
(* and ResolveWithContext on root <- parent <- child <- request container, *)
(* one lock operation and one map access at a time.  A ModuleContainer and *)
(* a RequestContainer have a mutex mu of their own beside the mu of the    *)
(* diContainer they embed; the services map is the embedded container's.   *)
(***************************************************************************)
LockGoroutines == {1, 2}

(* A goroutine that is in no call.  fn is the function it is executing, at *)
(* the container that is the receiver, mc the module container whose       *)
(* ResolveWithContext called GetDecorator, held the locks it holds, in the *)
(* order it acquired them.                                                 *)
IdleLocker == [pc |-> "idle", fn |-> "", at |-> 0, mc |-> 0, held |-> <<>>,
               val |-> NilValue, err |-> NoError]

InitLocks ==
    /\ modules = NewModuleGraph.modules
    /\ edges = NewModuleGraph.edges
    /\ sortOut = NoSort
    /\ NewPluginManager
    /\ app = [main |-> "none", listen |-> "none", listener |-> "none",
              shutdown |-> "none", httpServer |-> "nil"]
    /\ executionOrder = <<>>
    /\ goroutines = [g \in LockGoroutines |-> IdleLocker]
    /\ containers =
          LET c1 == <<NewDIContainer>>
              c2 == Append(c1, NewModuleContainer(c1, DefaultModule("parent", "1.0.0"),
                                                  FullRef(1)))
              c3 == Append(c2, NewModuleContainer(c2, DefaultModule("child", "1.0.0"),
                                                  FullRef(2)))
          IN  Append(c3, CreateRequestScope(3))
    /\ mode = "Disabled"
    /\ built = 0
    /\ lastOp = NoOp

(* The mutex a function locks: c.mu of the diContainer, mc.mu, rc.mu. *)
MutexOf(fn) ==
    IF fn \in {"RegisterProvider", "Has", "diContainer.ResolveWithContext"}
    THEN "diContainer.mu"
    ELSE IF fn \in {"Decorate", "GetDecorator", "ModuleContainer.ResolveWithContext"}
    THEN "ModuleContainer.mu"
    ELSE "RequestContainer.mu"

(* Lock for the functions that write a map, RLock for those that read one. *)
LockModeOf(fn) == IF fn \in {"RegisterProvider", "Decorate"} THEN "Lock" ELSE "RLock"

(* The map a function accesses while it holds the mutex. *)
MapOf(fn) ==
    IF fn \in {"Decorate", "GetDecorator"} THEN "decorators"
    ELSE IF fn = "GetRequestData" THEN "requestData"
    ELSE IF fn = "GetReplyHelper" THEN "replyHelpers"
    ELSE "services"

LockOf(fn, at) == [c |-> at, mu |-> MutexOf(fn), mode |-> LockModeOf(fn)]

(* sync.RWMutex: Lock waits until no other goroutine holds the mutex,      *)
(* RLock until no other goroutine holds it locked for writing.             *)
CanAcquire(g, l) ==
    \A h \in LockGoroutines \ {g} :
        \A i \in DOMAIN goroutines[h].held :
            LET other == goroutines[h].held[i]
            IN  (other.c = l.c /\ other.mu = l.mu) =>
                    (l.mode = "RLock" /\ other.mode = "RLock")

LockerUnchanged == UNCHANGED <<graphVars, pmVars, app, executionOrder, mode, lastOp>>

(* The function that runs for ref.ResolveWithContext(name, ctx). *)
ResolveWithContextEntry(ref) ==
    IF IsRequestContainer(containers, ref) THEN "GetRequestData"
    ELSE IF IsModuleContainer(containers, ref) THEN "GetDecorator"
    ELSE "diContainer.ResolveWithContext"

(* The function that runs for ref.Resolve(name). *)
ResolveEntry(ref) ==
    IF IsRequestContainer(containers, ref) THEN "GetRequestData"
    ELSE "diContainer.ResolveWithContext"

LockerOps == {"RegisterProvider", "Decorate", "Has", "Resolve", "ResolveWithContext"}

(* A goroutine calls op on container c, for the name x. *)
Locker_Call(g, op, c) ==
    /\ goroutines[g].pc = "idle"
    /\ op = "Decorate" => containers[c].kind = "module"
    /\ LET fn == IF op = "ResolveWithContext" THEN ResolveWithContextEntry(FullRef(c))
                 ELSE IF op = "Resolve" THEN ResolveEntry(FullRef(c))
                 ELSE op
       IN  goroutines' = [goroutines EXCEPT ![g] =
                             [IdleLocker EXCEPT !.pc = "lock", !.fn = fn, !.at = c, !.mc = c]]
    /\ UNCHANGED <<containers, built>>
    /\ LockerUnchanged

(* mu.Lock() or mu.RLock() of the function the goroutine is in returns. *)
Locker_Acquire(g) ==
    LET l == LockOf(goroutines[g].fn, goroutines[g].at)
    IN  /\ goroutines[g].pc = "lock"
        /\ CanAcquire(g, l)
        /\ goroutines' = [goroutines EXCEPT ![g].pc = "access", ![g].held = Append(@, l)]
        /\ UNCHANGED <<containers, built>>
        /\ LockerUnchanged

(* The goroutine goes on with function fn on container at, holding held. *)
GoOn(g, fn, at, mc, held) ==
    [goroutines EXCEPT ![g] = [@ EXCEPT !.pc = "lock", !.fn = fn, !.at = at, !.mc = mc,
                                        !.held = held]]

(* The call returns, every lock released. *)
Returns(g, val, err) ==
    [goroutines EXCEPT ![g] = [@ EXCEPT !.pc = "returned", !.held = <<>>,
                                        !.val = val, !.err = err]]

(* The goroutine goes on with ref.ResolveWithContext, holding no lock. *)
Delegate(g, ref) ==
    GoOn(g, ResolveWithContextEntry(ref), ref.id, ref.id, <<>>)

(* RegisterProvider between Lock and the deferred Unlock. *)
Locker_RegisterProvider(g) ==
    LET c == goroutines[g].at
    IN  /\ goroutines[g].pc = "access"
        /\ goroutines[g].fn = "RegisterProvider"
        /\ IF "x" \in DOMAIN containers[c].services
           THEN /\ goroutines' = Returns(g, NilValue, "service is already registered")
                /\ UNCHANGED containers
           ELSE /\ containers' = [containers EXCEPT ![c].services =
                                     MapPut(@, "x", [Lifetime |-> "Transient",
                                                     Instance |-> NilValue])]
                /\ goroutines' = Returns(g, NilValue, NoError)
        /\ UNCHANGED built
        /\ LockerUnchanged

(* Decorate between Lock and the deferred Unlock. *)
Locker_Decorate(g) ==
    LET mc == goroutines[g].at
    IN  /\ goroutines[g].pc = "access"
        /\ goroutines[g].fn = "Decorate"
        /\ IF "x" \in DOMAIN containers[mc].decorators
           THEN /\ goroutines' = Returns(g, NilValue, "decorator already exists")
                /\ UNCHANGED containers
           ELSE /\ containers' = [containers EXCEPT ![mc].decorators =
                                     MapPut(@, "x", DecoratorValue(mc))]
                /\ goroutines' = Returns(g, NilValue, NoError)
        /\ UNCHANGED built
        /\ LockerUnchanged

(* Has: the read of c.services under RLock, RUnlock, then c.parent.Has,    *)
(* which for every kind of parent is the method of its diContainer.        *)
Locker_Has(g) ==
    LET c == goroutines[g].at
        parent == containers[c].parent
    IN  /\ goroutines[g].pc = "access"
        /\ goroutines[g].fn = "Has"
        /\ goroutines' =
              IF "x" \notin DOMAIN containers[c].services /\ parent.id # 0
              THEN GoOn(g, "Has", parent.id, parent.id, <<>>)
              ELSE Returns(g, [kind |-> "bool", owner |-> 0,
                               id |-> IF "x" \in DOMAIN containers[c].services
                                      THEN 1 ELSE 0], NoError)
        /\ UNCHANGED <<containers, built>>
        /\ LockerUnchanged

(* diContainer.ResolveWithContext: the read of c.services under RLock and  *)
(* RUnlock; then the provider, the parent or the error.                    *)
Locker_DiResolveWithContext(g) ==
    LET c == goroutines[g].at
        parent == containers[c].parent
    IN  /\ goroutines[g].pc = "access"
        /\ goroutines[g].fn = "diContainer.ResolveWithContext"
        /\ goroutines' =
              IF "x" \in DOMAIN containers[c].services
              THEN [goroutines EXCEPT ![g].pc = "provider", ![g].held = <<>>]
              ELSE IF parent.id # 0
              THEN IF IsDiContainer(containers, parent)
                   THEN GoOn(g, "diContainer.ResolveWithContext", parent.id, parent.id, <<>>)
                   ELSE GoOn(g, ResolveEntry(parent), parent.id, parent.id, <<>>)
              ELSE Returns(g, NilValue, "service is not registered")
        /\ UNCHANGED <<containers, built>>
        /\ LockerUnchanged

(* GetDecorator between RLock and the deferred RUnlock: the read of        *)
(* mc.decorators, and the call of parent.GetDecorator, made with the read  *)
(* lock of mc held.  When the outermost GetDecorator has returned,         *)
(* ModuleContainer.ResolveWithContext returns the decorator or goes on.    *)
Locker_GetDecorator(g) ==
    LET c == goroutines[g].at
        parent == containers[c].parent
    IN  /\ goroutines[g].pc = "access"
        /\ goroutines[g].fn = "GetDecorator"
        /\ goroutines' =
              IF "x" \in DOMAIN containers[c].decorators
              THEN Returns(g, containers[c].decorators["x"], NoError)
              ELSE IF IsModuleContainer(containers, parent)
              THEN GoOn(g, "GetDecorator", parent.id, goroutines[g].mc, goroutines[g].held)
              ELSE GoOn(g, "ModuleContainer.ResolveWithContext", goroutines[g].mc,
                        goroutines[g].mc, <<>>)
        /\ UNCHANGED <<containers, built>>
        /\ LockerUnchanged

(* ModuleContainer.ResolveWithContext after the decorators: the read of    *)
(* mc.services under mc.mu.RLock and RUnlock; then the provider, or the    *)
(* encapsulation check and the parent, or the error.                       *)
Locker_McResolveWithContext(g) ==
    LET mc == goroutines[g].at
        parent == containers[mc].parent
        module == containers[mc].module
        checked == /\ IsModuleContainer(containers, parent)
                   /\ ~module.Global
                   /\ ~containers[parent.id].module.Global
                   /\ ~IsExported(containers[parent.id].module, "x")
        check == CheckEncapsulationViolation(module.Name,
                                             containers[parent.id].module.Name, "x")
    IN  /\ goroutines[g].pc = "access"
        /\ goroutines[g].fn = "ModuleContainer.ResolveWithContext"
        /\ goroutines' =
              IF "x" \in DOMAIN containers[mc].services
              THEN [goroutines EXCEPT ![g].pc = "provider", ![g].held = <<>>]
              ELSE IF parent.id # 0
              THEN IF checked /\ ~check.allowed
                   THEN Returns(g, NilValue, check.err)
                   ELSE Delegate(g, parent)
              ELSE Returns(g, NilValue, "service is not registered in module")
        /\ UNCHANGED <<containers, built>>
        /\ LockerUnchanged

(* GetRequestData and GetReplyHelper, each under rc.mu.RLock. *)
Locker_GetRequestData(g) ==
    LET rc == goroutines[g].at
    IN  /\ goroutines[g].pc = "access"
        /\ goroutines[g].fn = "GetRequestData"
        /\ goroutines' =
              IF "x" \in DOMAIN containers[rc].requestData
              THEN Returns(g, containers[rc].requestData["x"], NoError)
              ELSE GoOn(g, "GetReplyHelper", rc, rc, <<>>)
        /\ UNCHANGED <<containers, built>>
        /\ LockerUnchanged

Locker_GetReplyHelper(g) ==
    LET rc == goroutines[g].at
    IN  /\ goroutines[g].pc = "access"
        /\ goroutines[g].fn = "GetReplyHelper"
        /\ goroutines' =
              IF "x" \in DOMAIN containers[rc].replyHelpers
              THEN Returns(g, containers[rc].replyHelpers["x"], NoError)
              ELSE GoOn(g, "RequestContainer.ResolveWithContext", rc, rc, <<>>)
        /\ UNCHANGED <<containers, built>>
        /\ LockerUnchanged

(* RequestContainer.ResolveWithContext after the request data and reply    *)
(* helpers: the read of rc.services under rc.mu.RLock and RUnlock.         *)
Locker_RcResolveWithContext(g) ==
    LET rc == goroutines[g].at
        parent == containers[rc].parent
    IN  /\ goroutines[g].pc = "access"
        /\ goroutines[g].fn = "RequestContainer.ResolveWithContext"
        /\ goroutines' =
              IF "x" \in DOMAIN containers[rc].services
              THEN [goroutines EXCEPT ![g].pc = "provider", ![g].held = <<>>]
              ELSE IF parent.id # 0 THEN Delegate(g, parent)
              ELSE Returns(g, NilValue, "service is not registered")
        /\ UNCHANGED <<containers, built>>
        /\ LockerUnchanged

(* provider.Resolve of the provider found, called with no lock held. *)
Locker_Provider(g, outcome) ==
    /\ goroutines[g].pc = "provider"
    /\ LET r == TransientCase(World, goroutines[g].at, outcome)
       IN  /\ r.w.built <= MaxBuilt
           /\ built' = r.w.built
           /\ goroutines' = Returns(g, r.val, r.err)
    /\ UNCHANGED containers
    /\ LockerUnchanged

(* The caller has its result; the goroutine may make another call. *)
Locker_Done(g) ==
    /\ goroutines[g].pc = "returned"
    /\ goroutines' = [goroutines EXCEPT ![g] = IdleLocker]
    /\ UNCHANGED <<containers, built>>
    /\ LockerUnchanged

NextLocks ==
    \/ \E g \in LockGoroutines, op \in LockerOps, c \in Containers : Locker_Call(g, op, c)
    \/ \E g \in LockGoroutines : Locker_Acquire(g)
    \/ \E g \in LockGoroutines : Locker_RegisterProvider(g)
    \/ \E g \in LockGoroutines : Locker_Decorate(g)
    \/ \E g \in LockGoroutines : Locker_Has(g)
    \/ \E g \in LockGoroutines : Locker_DiResolveWithContext(g)
    \/ \E g \in LockGoroutines : Locker_GetDecorator(g)
    \/ \E g \in LockGoroutines : Locker_McResolveWithContext(g)
    \/ \E g \in LockGoroutines : Locker_GetRequestData(g)
    \/ \E g \in LockGoroutines : Locker_GetReplyHelper(g)
    \/ \E g \in LockGoroutines : Locker_RcResolveWithContext(g)
    \/ \E g \in LockGoroutines, outcome \in Outcomes : Locker_Provider(g, outcome)
    \/ \E g \in LockGoroutines : Locker_Done(g)

SpecLocks == InitLocks /\ [][NextLocks]_vars

(***************************************************************************)
(* C33: the lock that guards the services map                              *)
(***************************************************************************)
(* Goroutine g is between the locking and the unlocking around an access   *)
(* of kind "Lock" (write) or "RLock" (read) to the services map of c.      *)
AccessesServices(g, c, kind) ==
    /\ goroutines[g].pc = "access"
    /\ goroutines[g].at = c
    /\ MapOf(goroutines[g].fn) = "services"
    /\ LockModeOf(goroutines[g].fn) = kind

(* C33: on every container, while one goroutine is at a write of the       *)
(* services map no other goroutine is at a read or a write of that map:    *)
(* every access is made holding the same mutex of the container.           *)
C33_ServicesUnderOneLock ==
    \A c \in Containers : \A g, h \in LockGoroutines :
        (g # h /\ AccessesServices(g, c, "Lock")) =>
            /\ ~AccessesServices(h, c, "RLock")
            /\ ~AccessesServices(h, c, "Lock")

(***************************************************************************)
(* C34: locks across containers                                            *)
(***************************************************************************)
(* Goroutine g holds a lock of container c and is at the locking of, or    *)
(* has locked after it, a mutex of the parent of c.                        *)
LocksParentUnderChild(g, c) ==
    LET parent == containers[c].parent.id
        held == goroutines[g].held
    IN  /\ parent # 0
        /\ \E i \in DOMAIN held :
              /\ held[i].c = c
              /\ \/ goroutines[g].pc = "lock" /\ goroutines[g].at = parent
                 \/ \E j \in DOMAIN held : j > i /\ held[j].c = parent

(* C34: no goroutine in a resolution, Has, decorator lookup or             *)
(* registration acquires a lock of the parent of a container while it      *)
(* holds a lock of that container.                                         *)
C34_NoParentLockUnderChildLock ==
    \A g \in LockGoroutines : \A c \in Containers : ~LocksParentUnderChild(g, c)

(***************************************************************************)
(* C35: which violation Validate reports                                   *)
(***************************************************************************)
(* The errors of the violation that comes first in the order: empty name   *)
(* or version, duplicate provider names, duplicate export names, export of *)
(* an undeclared provider, malformed prefix.                               *)
FirstViolationErrors(m) ==
    IF m.Name = "" \/ m.Version = ""
    THEN {"module name cannot be empty", "module version cannot be empty"}
    ELSE IF \E i, j \in 1..Len(m.Providers) :
               i # j /\ m.Providers[i].Name = m.Providers[j].Name
    THEN {"duplicate provider name"}
    ELSE IF \E i, j \in 1..Len(m.Exports) : i # j /\ m.Exports[i] = m.Exports[j]
    THEN {"duplicate export"}
    ELSE IF \E i \in 1..Len(m.Exports) :
               \A j \in 1..Len(m.Providers) : m.Providers[j].Name # m.Exports[i]
    THEN {"exported provider not found"}
    ELSE IF m.Prefix # <<>> /\ (m.Prefix[1] # "/" \/ HasDotDot(m.Prefix))
    THEN {"prefix must start with '/'", "prefix contains invalid path traversal"}
    ELSE {NoError}

(* C35: for a module whose providers are all non-nil and named, Validate   *)
(* reports the violation that comes first in that order; a module with a   *)
(* duplicate provider name and a duplicate export name gets the            *)
(* duplicate-provider error.                                               *)
C35_FirstViolationReported ==
    (lastOp.op = "Validate" /\ WellFormedProviders(lastOp.m)) =>
        lastOp.err \in FirstViolationErrors(lastOp.m)

(***************************************************************************)
(* C36: the context that reaches the provider of an ancestor               *)
(***************************************************************************)
(* C36: when ResolveWithContext or ResolveAsWithContext on a container     *)
(* invokes the provider of another container, an ancestor that holds the   *)
(* name, that provider is given the caller's context or one derived from   *)
(* it, not context.Background().                                           *)
C36_CallerContextReachesAncestor ==
    (/\ lastOp.op \in {"ResolveWithContext", "ResolveAsWithContext"}
     /\ lastOp.made # "none"
     /\ lastOp.served # lastOp.c) =>
        lastOp.ctx = "caller"

(***************************************************************************)
(* C37: Resolve against ResolveWithContext with a background context       *)
(***************************************************************************)
(* The two not-registered errors are errors of the same kind. *)
ErrorKind(err) ==
    IF err = "service is not registered in module" THEN "service is not registered"
    ELSE err

(* What a caller and the log see of a resolution. *)
Observed(r) ==
    [val |-> r.val, err |-> ErrorKind(r.err), served |-> r.served, via |-> r.via,
     made |-> r.made, from |-> r.from, to |-> r.to, warned |-> r.w.warned]

(* Resolve(x) and ResolveWithContext(x, context.Background()) on c give    *)
(* the same outcome in the current state, whatever the factory does.       *)
SameOutcome(c) ==
    \A outcome \in Outcomes :
        Observed(ResolveOn(World, FullRef(c), "x", outcome)) =
            Observed(ResolveWithContextOn([World EXCEPT !.ctx = "background"],
                                          FullRef(c), "x", outcome))

(* C37: in every state, on the root container, on every module container  *)
(* and on every request container, Resolve(x) gives the same value or the  *)
(* same kind of error as ResolveWithContext(x, background context), from   *)
(* the same binding, with the same encapsulation check made and the same   *)
(* warning written.                                                        *)
C37_ResolveIsResolveWithBackground ==
    \A c \in Containers :
        containers[c].kind \in {"di", "module", "request"} => SameOutcome(c)

(***************************************************************************)
(* C38: the async pass ends                                                *)
(***************************************************************************)
(* No async provider of the plugins being initialized has a factory that   *)
(* never returns.                                                          *)
EveryFactoryReturns ==
    \A pj \in AsyncProvidersOf(init.order) :
        plugins[pj[1]].Module.Providers[pj[2]].Factory # "never"

(* C38: when InitializePlugins has entered the async pass and every async  *)
(* factory returns, InitializePlugins eventually returns, whatever the     *)
(* number of workers and of failed resolutions: with more than 10 workers, *)
(* and with more failures than errChan has capacity.                       *)
C38_InitializePluginsReturns ==
    (init.pc = "async" /\ EveryFactoryReturns) ~> (init.pc = "returned")

(* InitializePlugins has returned after a pass in which more resolutions   *)
(* failed than errChan has capacity.                                       *)
C38_Witness ==
    /\ init.pc = "returned"
    /\ pass.pc = "returned"
    /\ WaitCounter = 0
    /\ FailedWorkers > pass.cap
    /\ Count(pass.errors) = FailedWorkers

(***************************************************************************)
(* C39: from a request container into its module container                *)
(***************************************************************************)
(* The request container binds name itself: a request decoration, a reply  *)
(* helper or a provider of its own.                                        *)
BoundInRequest(rc, name) ==
    \/ name \in DOMAIN containers[rc].requestData
    \/ name \in DOMAIN containers[rc].replyHelpers
    \/ name \in DOMAIN containers[rc].services

(* rc.Resolve(x) in the current state, were the module of M to export      *)
(* exports, returns the instance the provider of M made, with no error and *)
(* no warning, when the factory returns.                                   *)
ReachesProviderOf(M, rc, exports) ==
    \A outcome \in {"value", "nil"} :
        LET r == ResolveOn([World EXCEPT !.cs[M].module.Exports = exports],
                           FullRef(rc), "x", outcome)
        IN  /\ r.err = NoError
            /\ r.served = M
            /\ r.via = "provider"
            /\ r.made = outcome
            /\ ~r.w.warned

(* The last call was Resolve(x) on rc, its factory did not fail, and it    *)
(* returned what the provider of M made, without a warning.                *)
ResolvedFromModule(M, rc) ==
    (Called({"Resolve"}, {rc}, "x") /\ lastOp.made # "err") =>
        /\ ReturnedProviderOf(M)
        /\ lastOp.made # "none"
        /\ ~lastOp.warned

C40_ResolvableImpliesHas ==
    /\ (lastOp.op = "Resolve" /\ lastOp.err = NoError) =>
           Has(containers, lastOp.c, lastOp.name)
    /\ \A c \in Containers :
           ~Has(containers, c, "x") =>
               \A outcome \in Outcomes :
                   ErrorKind(ResolveOn(World, FullRef(c), "x", outcome).err)
                       = "service is not registered"

====
